---- MODULE Spec2Model ----
(***************************************************************************)
(* Model of the SMS ingestion pipeline of fintech-be: the merchant rule    *)
(* cache (loadMerchantRules), the merchant resolver                        *)
(* (resolveMerchantAndCategory), the fallback classifier adapters and the  *)
(* orchestrator parseTransactionSMS of src/src/lib/geminiAgent.ts.         *)
(*                                                                         *)
(* Conventions                                                             *)
(*  - a JavaScript string that the code inspects character by character is *)
(*    a sequence of one-character strings; strings the code only copies or *)
(*    tests for emptiness are TLA+ strings ("" is the empty string);       *)
(*  - a nullable value is a sequence of length at most one: <<>> is null   *)
(*    and <<v>> is the value v;                                            *)
(*  - confidences are counted in hundredths (0.95 is 95, 0.7 is 70);       *)
(*  - times are milliseconds, as returned by Date.now().                   *)
(***************************************************************************)
EXTENDS Integers, Sequences, FiniteSets, TLC

NULL == <<>>

Some(v) == <<v>>

(***************************************************************************)
(* Characters.  The generated inputs use a four-letter alphabet with one   *)
(* representative of every class normalizeForMatch distinguishes: an upper *)
(* case letter, a lower case letter, white space and a stripped character. *)
(***************************************************************************)
Chars == {"A", "b", " ", "-"}

LowerAlphabet ==
  << "a", "b", "c", "d", "e", "f", "g", "h", "i", "j", "k", "l", "m",
     "n", "o", "p", "q", "r", "s", "t", "u", "v", "w", "x", "y", "z" >>

UpperAlphabet ==
  << "A", "B", "C", "D", "E", "F", "G", "H", "I", "J", "K", "L", "M",
     "N", "O", "P", "Q", "R", "S", "T", "U", "V", "W", "X", "Y", "Z" >>

LowerLetters == {LowerAlphabet[i] : i \in 1..26}

UpperLetters == {UpperAlphabet[i] : i \in 1..26}

Digits == {"0", "1", "2", "3", "4", "5", "6", "7", "8", "9"}

\* the characters of the class \s that occur in the inputs
Whitespace == {" ", "\t"}

UpperOf == [c \in LowerLetters |->
             UpperAlphabet[CHOOSE i \in 1..26 : LowerAlphabet[i] = c]]

LowerOf == [c \in UpperLetters |->
             LowerAlphabet[CHOOSE i \in 1..26 : UpperAlphabet[i] = c]]

\* String.prototype.toUpperCase on one character
toUpperCase(c) == IF c \in LowerLetters THEN UpperOf[c] ELSE c

\* String.prototype.toLowerCase on one character
toLowerCase(c) == IF c \in UpperLetters THEN LowerOf[c] ELSE c

\* the sentinel 'Unknown' returned by extractRawMerchant
Unknown == <<"U", "n", "k", "n", "o", "w", "n">>

\* a mutation of the character class: the hyphen is kept too
IsKeptOrHyphen(c) == c \in UpperLetters \cup Digits \cup {"@", "-"} \cup Whitespace

\* the character class [A-Z0-9@\s] of normalizeForMatch
IsKept(c) == c \in UpperLetters \cup Digits \cup {"@"} \cup Whitespace

RECURSIVE CollapseSpaces(_)
\* .replace(/\s+/g, ' ')
CollapseSpaces(s) ==
  IF Len(s) = 0 THEN <<>>
  ELSE IF Head(s) \in Whitespace
       THEN IF Len(s) > 1 /\ s[2] \in Whitespace
            THEN CollapseSpaces(Tail(s))
            ELSE <<" ">> \o CollapseSpaces(Tail(s))
       ELSE <<Head(s)>> \o CollapseSpaces(Tail(s))

RECURSIVE TrimLeft(_)
TrimLeft(s) ==
  IF Len(s) > 0 /\ Head(s) \in Whitespace THEN TrimLeft(Tail(s)) ELSE s

RECURSIVE TrimRight(_)
TrimRight(s) ==
  IF Len(s) > 0 /\ s[Len(s)] \in Whitespace
  THEN TrimRight(SubSeq(s, 1, Len(s) - 1))
  ELSE s

\* String.prototype.trim
Trim(s) == TrimRight(TrimLeft(s))

normalizeForMatch(input) ==
  IF Len(input) = 0 THEN <<>>
  ELSE Trim(CollapseSpaces(
         SelectSeq([i \in 1..Len(input) |-> toUpperCase(input[i])], IsKept)))

\* the normalization applied to a rule pattern at load time (line 142)
normalizePattern(p) == normalizeForMatch(p)

\* String.prototype.includes
includes(s, t) ==
  \E i \in 0..(Len(s) - Len(t)) : SubSeq(s, i + 1, i + Len(t)) = t

(***************************************************************************)
(* Bounds of the generated inputs.                                         *)
(***************************************************************************)
MaxLen == 3

MaxRules == 3

\* all character sequences of length at most n over Chars
Strings(n) == UNION {[1..k -> Chars] : k \in 0..n}

(***************************************************************************)
(* The rule source: rows of the sheet range Database!A2:E.  A row carries  *)
(* the cells match_pattern, canonical_merchant, category and priority.     *)
(* Patterns and merchant names are character sequences, a category is a    *)
(* string (a cell holding only white space is " "), and a                  *)
(* priority cell is <<n>> when parseFloat reads the number n from it and    *)
(* <<>> when parseFloat returns NaN (an empty cell, a text).               *)
(***************************************************************************)
Row(p, m, c, pr) == [pattern |-> p, merchant |-> m, category |-> c, priority |-> pr]

SheetRowCatalogue ==
  { Row(<<"A">>, <<"S", "w">>, "Food & Dining", <<1>>),
    Row(<<"A", "b">>, <<"S", "w", " ", "I">>, "Groceries & Home Supplies", <<5>>),
    Row(<<"b">>, <<"U", "b">>, "Transport", <<1>>),
    Row(<<"b", "-", "A">>, <<"B", "B">>, "Fashion and Shopping", <<5>>),
    Row(<<" ", "A", " ", "b">>, <<"A", "z", " ">>, "Utilities", <<>>),
    Row(<<"-">>, <<"M", "i">>, "Unknown", <<-1>>),
    Row(<<"A">>, <<" ">>, "Fuel", <<9>>) }

\* the tables a load can return: at most n rows of the catalogue, in any order
SheetTables(n) == UNION {[1..k -> SheetRowCatalogue] : k \in 0..n}

\* (row[2] || '').toString().trim() on a category cell
TrimCell(cell) == IF cell = " " THEN "" ELSE cell

\* parseFloat(row[3]) || 0
ParsePriority(cell) == IF cell = <<>> \/ cell[1] = 0 THEN 0 ELSE cell[1]

\* the row test of line 137: !matchPattern || !canonicalMerchant || !category
IsInvalidRow(row) ==
  \/ Trim(row.pattern) = <<>>
  \/ Trim(row.merchant) = <<>>
  \/ TrimCell(row.category) = ""

\* the MerchantRule built from a valid row (lines 141-146)
RuleOfRow(row) ==
  [ match_pattern      |-> normalizePattern(Trim(row.pattern)),
    canonical_merchant |-> Trim(row.merchant),
    category           |-> TrimCell(row.category),
    priority           |-> ParsePriority(row.priority) ]

RECURSIVE ParseRows(_)
\* rows.map(...).filter(rule => rule !== null), lines 129-148
ParseRows(rows) ==
  IF Len(rows) = 0 THEN <<>>
  ELSE IF IsInvalidRow(Head(rows))
       THEN ParseRows(Tail(rows))
       ELSE <<RuleOfRow(Head(rows))>> \o ParseRows(Tail(rows))

(***************************************************************************)
(* resolveMerchantAndCategory, lines 208-246.                              *)
(***************************************************************************)
RULE_CONFIDENCE == 95

\* the filter of lines 224-227
RuleMatches(normalizedRawMerchant, rule) ==
  includes(normalizedRawMerchant, rule.match_pattern)

RECURSIVE FilterMatching(_, _)
FilterMatching(normalizedRawMerchant, rules) ==
  IF Len(rules) = 0 THEN <<>>
  ELSE IF RuleMatches(normalizedRawMerchant, Head(rules))
       THEN <<Head(rules)>> \o FilterMatching(normalizedRawMerchant, Tail(rules))
       ELSE FilterMatching(normalizedRawMerchant, Tail(rules))

\* a mutation of the reducer: a later rule of equal priority replaces the earlier
ReducerLastWins(prev, current) ==
  IF current.priority >= prev.priority THEN current ELSE prev

\* the reducer of line 235: current.priority > prev.priority ? current : prev
Reducer(prev, current) ==
  IF current.priority > prev.priority THEN current ELSE prev

RECURSIVE Reduce(_, _)
\* Array.prototype.reduce without an initial value, on acc and the rest
Reduce(acc, rest) ==
  IF Len(rest) = 0 THEN acc ELSE Reduce(Reducer(acc, Head(rest)), Tail(rest))

\* lines 234-236, on a non-empty list
SelectRule(matchingRules) == Reduce(Head(matchingRules), Tail(matchingRules))

\* lines 229-243: null without a matching rule, else the rule of highest
\* priority with the fixed confidence
MatchOf(matchingRules) ==
  IF Len(matchingRules) = 0 THEN NULL
  ELSE Some([ merchant   |-> SelectRule(matchingRules).canonical_merchant,
              category   |-> SelectRule(matchingRules).category,
              confidence |-> RULE_CONFIDENCE,
              source     |-> "rules" ])

\* a mutation of the resolver: the test of lines 219-221 is left out
resolveMerchantAndCategoryUnguarded(rawMerchant, rules) ==
  IF rawMerchant = <<>> \/ rawMerchant = Unknown \/ Len(rules) = 0
  THEN NULL
  ELSE CHOOSE resolution \in
         { MatchOf(FilterMatching(normalizedRawMerchant, rules)) :
             normalizedRawMerchant \in {normalizeForMatch(rawMerchant)} } : TRUE

\* lines 208-246; the const normalizedRawMerchant of line 216 is computed
\* once and bound
resolveMerchantAndCategory(rawMerchant, rules) ==
  IF rawMerchant = <<>> \/ rawMerchant = Unknown \/ Len(rules) = 0
  THEN NULL
  ELSE CHOOSE resolution \in
         { IF normalizedRawMerchant = <<>> THEN NULL
           ELSE MatchOf(FilterMatching(normalizedRawMerchant, rules)) :
             normalizedRawMerchant \in {normalizeForMatch(rawMerchant)} } : TRUE

(***************************************************************************)
(* The fallback classifier.  What geminiModel.generateContent answers is a *)
(* reply of one of four kinds:                                             *)
(*   "reject"  the call rejects or response.text() throws (network error), *)
(*   "garbage" the text is not JSON once the code fences are stripped,     *)
(*   "scalar"  the text is the JSON of null, a number or a string,         *)
(*   "object"  the text is the JSON of an object (or array).               *)
(* An object carries category (<<>> when the key is absent), confidence    *)
(* ([type, value]: a number in hundredths, a non-number, or absent) and    *)
(* merchant (the empty sequence when absent or empty).  fenced tells       *)
(* whether the text is wrapped in ``` markers.  The bank key, which only   *)
(* the second adapter reads, is left absent.                               *)
(***************************************************************************)
ALLOWED_CATEGORIES ==
  { "Rent and maintainence", "Utilities", "Groceries & Home Supplies",
    "Food & Dining", "Entertainment, OTT etc", "Investements and Stock Purchases",
    "Fashion and Shopping", "Fuel", "Vehicle Ownership (Tyres, Washing etc)",
    "Health & Medicine Expenses", "Transport", "Sending money to parents or family",
    "Travel and Vacations", "Home Improvement", "Helping Others / Donations",
    "Unknown", "Credit Card", "EMI", "Loan Repayment" }

Num(n) == [type |-> "number", value |-> n]

NotANumber == [type |-> "string", value |-> 0]

Absent == [type |-> "undefined", value |-> 0]

\* the confidences a reply may carry, in hundredths
ReplyConfidences ==
  {Num(n) : n \in {-1, 0, 50, 70, 71, 90, 99, 100, 101}} \cup {NotANumber, Absent}

ReplyCategories == {NULL, Some("Food & Dining"), Some("Unknown"), Some("Pizza")}

ReplyMerchants == {<<>>, <<"D", "o">>}

ObjectReply(f, c, k, m) ==
  [kind |-> "object", fenced |-> f, category |-> c, confidence |-> k, merchant |-> m]

FailedReply(kind) ==
  [kind |-> kind, fenced |-> FALSE, category |-> NULL, confidence |-> Absent, merchant |-> <<>>]

GeminiReplies ==
  {FailedReply(k) : k \in {"reject", "garbage", "scalar"}}
  \cup {ObjectReply(f, c, k, m) :
          f \in BOOLEAN, c \in ReplyCategories, k \in ReplyConfidences, m \in ReplyMerchants}

\* text.replace(/```json\n?/g, '').replace(/```\n?/g, '').trim()
StripFences(reply) == [reply EXCEPT !.fenced = FALSE]

\* JSON.parse succeeds and the validation code does not throw on its value: a
\* property of a scalar cannot be assigned in a module (strict mode), and
\* reading one of null throws
ParsesToObject(reply) == reply.kind = "object" /\ ~StripFences(reply).fenced

\* ALLOWED_CATEGORIES.includes(parsed.category)
IsAllowedCategory(category) == category # NULL /\ category[1] \in ALLOWED_CATEGORIES

\* the negation of line 558: typeof c !== 'number' || c < 0 || c > 1
IsValidConfidence(confidence) ==
  confidence.type = "number" /\ confidence.value >= 0 /\ confidence.value <= 100

\* x || y on merchant names
OrElse(x, y) == IF x # <<>> THEN x ELSE y

\* the value of the catch block of classifyTransactionWithGemini, lines 568-576
GeminiCatch(rawMerchant) ==
  [category |-> "Unknown", confidence |-> 0, bank |-> Unknown,
   merchant |-> OrElse(rawMerchant, Unknown)]

\* classifyTransactionWithGemini, lines 510-577
classifyTransactionWithGemini(reply, rawMerchant) ==
  IF ~ParsesToObject(reply) THEN GeminiCatch(rawMerchant)
  ELSE LET category == IF IsAllowedCategory(reply.category)
                       THEN reply.category[1] ELSE "Unknown"
           confidence == IF IsAllowedCategory(reply.category)
                         THEN reply.confidence ELSE Num(0)
       IN  [ category   |-> category,
             confidence |-> IF IsValidConfidence(confidence) THEN confidence.value ELSE 0,
             bank       |-> Unknown,
             merchant   |-> OrElse(reply.merchant, OrElse(rawMerchant, Unknown)) ]

\* the second classifyTransaction of geminiAgent.ts (sms, amount, ...), lines 857-920
classifyTransactionSms(reply) ==
  IF ~ParsesToObject(reply)
  THEN [category |-> "Unknown", confidence |-> 0, bank |-> Unknown, merchant |-> Unknown]
  ELSE LET category == IF IsAllowedCategory(reply.category)
                       THEN reply.category[1] ELSE "geminiMnknown"
           confidence == IF IsAllowedCategory(reply.category)
                         THEN reply.confidence ELSE Num(0)
       IN  [ category   |-> category,
             confidence |-> IF IsValidConfidence(confidence) THEN confidence.value ELSE 0,
             bank       |-> Unknown,
             merchant   |-> OrElse(reply.merchant, Unknown) ]

\* a mutation of the third classifyTransaction: the tests of lines 982 and
\* 987 are left out and the parsed reply is returned as it is
classifyTransactionUnvalidated(reply) ==
  IF ~ParsesToObject(reply) THEN [category |-> "Unknown", confidence |-> 0]
  ELSE [category   |-> IF reply.category = NULL THEN "" ELSE reply.category[1],
        confidence |-> reply.confidence.value]

\* the third classifyTransaction of geminiAgent.ts (transaction), lines 954-995
classifyTransaction(reply) ==
  IF ~ParsesToObject(reply) THEN [category |-> "Unknown", confidence |-> 0]
  ELSE IF ~IsAllowedCategory(reply.category)
       THEN [category |-> "Unknown", confidence |-> 0]
       ELSE IF ~IsValidConfidence(reply.confidence)
            THEN [category |-> reply.category[1], confidence |-> 0]
            ELSE [category |-> reply.category[1], confidence |-> reply.confidence.value]

(***************************************************************************)
(* Regular expressions.  The extract* functions and parseSMS read a        *)
(* message with String.prototype.match and RegExp.prototype.test.  A       *)
(* pattern is a tree of the nodes below and RegExpMatch computes what the  *)
(* backtracking matcher of the language computes: the list of the ways a   *)
(* node can match at a position, in the order the matcher tries them, so   *)
(* that the head of the list is the match it reports.  A match is          *)
(* [e, caps]: the position after the match and the spans of the capture    *)
(* groups (<<>> for a group that did not take part).                       *)
(***************************************************************************)
\* the characters of a string literal of the source
Str(x) == [i \in 1..Len(x) |-> SubSeq(x, i, i)]

\* a literal of a pattern
Lit(x) == [t |-> "lit", s |-> Str(x)]

Cls(chars) == [t |-> "cls", set |-> chars]

Cat(nodes) == [t |-> "cat", rs |-> nodes]

Alt(nodes) == [t |-> "alt", rs |-> nodes]

\* r{lo,hi}; hi = -1 is no upper limit; greedy is FALSE for the lazy r+? form
Rep(node, lo, hi, isGreedy) ==
  [t |-> "rep", r |-> node, min |-> lo, max |-> hi, greedy |-> isGreedy]

Grp(k, node) == [t |-> "grp", n |-> k, r |-> node]

WordBoundary == [t |-> "wordb"]

EndOfInput == [t |-> "eol"]

Opt(node) == Rep(node, 0, 1, TRUE)

Plus(node) == Rep(node, 1, -1, TRUE)

Star(node) == Rep(node, 0, -1, TRUE)

LazyPlus(node) == Rep(node, 1, -1, FALSE)

\* the number of capture groups of the largest pattern
MaxGroups == 6

NoCaptures == [k \in 1..MaxGroups |-> <<>>]

\* the word characters of \b
WordChars == LowerLetters \cup UpperLetters \cup Digits \cup {"_"}

\* a character against a class, under the i flag when ci
InClass(c, chars, ci) ==
  \/ c \in chars
  \/ ci /\ (toUpperCase(c) \in chars \/ toLowerCase(c) \in chars)

LitMatchesAt(str, s, i, ci) ==
  /\ i + Len(str) - 1 <= Len(s)
  /\ \A k \in 1..Len(str) :
       \/ s[i + k - 1] = str[k]
       \/ ci /\ toUpperCase(s[i + k - 1]) = toUpperCase(str[k])

IsWordAt(s, i) == i >= 1 /\ i <= Len(s) /\ s[i] \in WordChars

RECURSIVE RegExpMatch(_, _, _, _, _)
RECURSIVE RegExpThen(_, _, _, _)
RECURSIVE RegExpGroup(_, _, _)
\* the matches of node r of the pattern at position i of s
RegExpMatch(r, s, i, caps, ci) ==
  CASE r.t = "lit" ->
         IF LitMatchesAt(r.s, s, i, ci)
         THEN << [e |-> i + Len(r.s), caps |-> caps] >> ELSE <<>>
    [] r.t = "cls" ->
         IF i <= Len(s) /\ InClass(s[i], r.set, ci)
         THEN << [e |-> i + 1, caps |-> caps] >> ELSE <<>>
    [] r.t = "cat" ->
         IF Len(r.rs) = 0 THEN << [e |-> i, caps |-> caps] >>
         ELSE RegExpThen(RegExpMatch(Head(r.rs), s, i, caps, ci),
                         Cat(Tail(r.rs)), s, ci)
    [] r.t = "alt" ->
         IF Len(r.rs) = 0 THEN <<>>
         ELSE RegExpMatch(Head(r.rs), s, i, caps, ci)
              \o RegExpMatch(Alt(Tail(r.rs)), s, i, caps, ci)
    [] r.t = "rep" ->
         LET here == << [e |-> i, caps |-> caps] >>
             stop == IF r.min = 0 THEN here ELSE <<>>
             once == SelectSeq(RegExpMatch(r.r, s, i, caps, ci),
                               LAMBDA m : m.e > i)
             less == Rep(r.r, IF r.min = 0 THEN 0 ELSE r.min - 1,
                         IF r.max = -1 THEN -1 ELSE r.max - 1, r.greedy)
             more == IF r.max = 0 THEN <<>> ELSE RegExpThen(once, less, s, ci)
         IN  IF r.greedy THEN more \o stop ELSE stop \o more
    [] r.t = "grp" ->
         RegExpGroup(RegExpMatch(r.r, s, i, caps, ci), r.n, i)
    [] r.t = "wordb" ->
         IF IsWordAt(s, i - 1) # IsWordAt(s, i)
         THEN << [e |-> i, caps |-> caps] >> ELSE <<>>
    [] r.t = "eol" ->
         IF i = Len(s) + 1 THEN << [e |-> i, caps |-> caps] >> ELSE <<>>

\* each match of ms continued by node r
RegExpThen(ms, r, s, ci) ==
  IF Len(ms) = 0 THEN <<>>
  ELSE RegExpMatch(r, s, Head(ms).e, Head(ms).caps, ci)
       \o RegExpThen(Tail(ms), r, s, ci)

\* each match of ms recorded as the span of group k, which began at i
RegExpGroup(ms, k, i) ==
  IF Len(ms) = 0 THEN <<>>
  ELSE << [e |-> Head(ms).e,
           caps |-> [Head(ms).caps EXCEPT ![k] = <<i, Head(ms).e>>]] >>
       \o RegExpGroup(Tail(ms), k, i)

RECURSIVE RegExpExecFrom(_, _, _, _)
RegExpExecFrom(r, s, i, ci) ==
  IF i > Len(s) + 1 THEN NULL
  ELSE LET ms == RegExpMatch(r, s, i, NoCaptures, ci)
       IN  IF Len(ms) > 0
           THEN Some([start |-> i, e |-> Head(ms).e, caps |-> Head(ms).caps])
           ELSE RegExpExecFrom(r, s, i + 1, ci)

\* String.prototype.match without the g flag: null or the leftmost match
StringMatch(s, r, ci) == RegExpExecFrom(r, s, 1, ci)

\* RegExp.prototype.test
RegExpTest(r, s, ci) == StringMatch(s, r, ci) # NULL

\* match[k]: the text of group k, the empty sequence for undefined (both falsy)
MatchGroup(s, match, k) ==
  IF match[1].caps[k] = <<>> THEN <<>>
  ELSE SubSeq(s, match[1].caps[k][1], match[1].caps[k][2] - 1)

\* whether group k took part in the match (an empty text is not undefined)
GroupDefined(match, k) == match[1].caps[k] # <<>>

\* match[0]
MatchText(s, match) == SubSeq(s, match[1].start, match[1].e - 1)

(***************************************************************************)
(* The field extractors of geminiAgent.ts, lines 167-197 and 313-504.      *)
(* Texts are character sequences.  A number is Num(n), n in hundredths, or *)
(* NotANumber.                                                             *)
(***************************************************************************)
\* the character U+20B9 (the rupee sign), one character of a message
RupeeSign == "U+20B9"

Letters == LowerLetters \cup UpperLetters

Space == Cls(Whitespace)

Digit == Cls(Digits)

\* (?:Rs\.?|INR|<rupee sign>)
Currency == Alt(<<Cat(<<Lit("Rs"), Opt(Lit("."))>>), Lit("INR"), Cls({RupeeSign})>>)

\* ([0-9,]+\.?\d*) as group k
AmountDigits(k) ==
  Grp(k, Cat(<<Plus(Cls(Digits \cup {","})), Opt(Lit(".")), Star(Digit)>>))

DigitValue ==
  [c \in Digits |-> CHOOSE d \in 0..9 : Str(ToString(d)) = <<c>>]

RECURSIVE DigitsValue(_, _)
\* the number written by the digits ds, after acc
DigitsValue(ds, acc) ==
  IF Len(ds) = 0 THEN acc
  ELSE DigitsValue(Tail(ds), 10 * acc + DigitValue[Head(ds)])

RECURSIVE LeadingDigits(_)
LeadingDigits(s) ==
  IF Len(s) > 0 /\ Head(s) \in Digits
  THEN <<Head(s)>> \o LeadingDigits(Tail(s)) ELSE <<>>

\* parseFloat on a text of digits with at most one point: the value in
\* hundredths (digits after the second decimal are below the resolution)
parseFloat(s) ==
  LET whole == LeadingDigits(s)
      rest  == SubSeq(s, Len(whole) + 1, Len(s))
      frac  == IF Len(rest) > 0 /\ Head(rest) = "."
               THEN LeadingDigits(Tail(rest)) ELSE <<>>
      cents == SubSeq(frac \o <<"0", "0">>, 1, 2)
  IN  IF Len(whole) = 0 /\ Len(frac) = 0 THEN NotANumber
      ELSE Num(100 * DigitsValue(whole, 0) + DigitsValue(cents, 0))

\* parseInt on a text that starts with digits
parseInt(s) == DigitsValue(LeadingDigits(s), 0)

\* Number.prototype.toString of a natural number
NumberToString(n) == Str(ToString(n))

\* .replace(/,/g, '')
RemoveCommas(s) == SelectSeq(s, LAMBDA c : c # ",")

\* the patterns of lines 315-319
AmountPatterns ==
  << Cat(<<Currency, Star(Space), AmountDigits(1)>>),
     Cat(<<AmountDigits(1), Star(Space), Currency>>),
     Cat(<<Alt(<<Lit("credited"), Lit("debited"), Lit("paid"), Lit("sent"),
                 Lit("received")>>),
           Plus(Space), Opt(Currency), Star(Space), AmountDigits(1)>>) >>

RECURSIVE FirstWithGroup(_, _, _, _)
\* the loop of lines 321-327 and 364-369: the first pattern that matches with
\* a non-empty first group, as null or [s, match]
FirstWithGroup(s, patterns, k, ci) ==
  IF k > Len(patterns) THEN NULL
  ELSE LET match == StringMatch(s, patterns[k], ci)
       IN  IF match # NULL /\ MatchGroup(s, match, 1) # <<>>
           THEN Some(MatchGroup(s, match, 1))
           ELSE FirstWithGroup(s, patterns, k + 1, ci)

extractAmount(sms) ==
  LET found == FirstWithGroup(sms, AmountPatterns, 1, TRUE)
  IN  IF found # NULL THEN parseFloat(RemoveCommas(found[1])) ELSE Num(0)

toLowerCaseAll(s) == [i \in 1..Len(s) |-> toLowerCase(s[i])]

toUpperCaseAll(s) == [i \in 1..Len(s) |-> toUpperCase(s[i])]

inflowKeywords == <<"credited", "received", "deposited", "refund", "cashback">>

outflowKeywords == <<"debited", "paid", "sent", "withdrawn", "purchase", "spent">>

\* keywords.some(keyword => lowerSms.includes(keyword))
SomeKeyword(lowerSms, keywords) ==
  \E k \in 1..Len(keywords) : includes(lowerSms, Str(keywords[k]))

\* lines 335-350
extractDirection(sms) ==
  IF SomeKeyword(toLowerCaseAll(sms), inflowKeywords) THEN "Inflow"
  ELSE IF SomeKeyword(toLowerCaseAll(sms), outflowKeywords) THEN "Outflow"
  ELSE "Outflow"

AlphaNumUpper == Cls(UpperLetters \cup Digits)

\* the patterns of lines 357-362
TransactionIdPatterns ==
  << Cat(<<Lit("A/c"), Plus(Space), Grp(1, Plus(AlphaNumUpper))>>),
     Cat(<<Alt(<<Cat(<<Lit("Ref"), Opt(Lit("."))>>), Lit("Reference")>>),
           Star(Space),
           Opt(Alt(<<Cat(<<Lit("No"), Opt(Lit("."))>>), Lit("Number")>>)),
           Star(Space), Opt(Lit(":")), Star(Space),
           Grp(1, Plus(AlphaNumUpper))>>),
     Cat(<<Lit("UTR"), Star(Space), Opt(Lit(":")), Star(Space),
           Grp(1, Plus(AlphaNumUpper))>>),
     Cat(<<Alt(<<Lit("XX"), Lit("xxx")>>), Grp(1, Plus(Digit))>>) >>

\* Date.now() is counted in the model from an instant whose decimal notation
\* ends in eight zeros; this is the part of the notation before them
EpochDigits == Str("17000")

RECURSIVE PadStart(_, _, _)
\* String.prototype.padStart
PadStart(s, n, c) == IF Len(s) >= n THEN s ELSE PadStart(<<c>> \o s, n, c)

\* Date.now().toString()
DateNowString(t) == EpochDigits \o PadStart(NumberToString(t), 8, "0")

\* .slice(-n)
SliceLast(s, n) == IF Len(s) <= n THEN s ELSE SubSeq(s, Len(s) - n + 1, Len(s))

\* lines 355-373
extractTransactionId(sms, t) ==
  LET found == FirstWithGroup(sms, TransactionIdPatterns, 1, TRUE)
  IN  IF found # NULL THEN found[1]
      ELSE Str("TXN") \o SliceLast(DateNowString(t), 8)

MonthNames ==
  <<"Jan", "Feb", "Mar", "Apr", "May", "Jun", "Jul", "Aug", "Sep", "Oct", "Nov", "Dec">>

\* (JAN|FEB|...|DEC) as group k
MonthName(k) == Grp(k, Alt([m \in 1..12 |-> Lit(MonthNames[m])]))

\* (\d{1,2}) as group k
OneOrTwoDigits(k) == Grp(k, Rep(Digit, 1, 2, TRUE))

\* (\d{2}) as group k
TwoDigits(k) == Grp(k, Rep(Digit, 2, 2, TRUE))

\* (\d{4}) as group k
FourDigits(k) == Grp(k, Rep(Digit, 4, 4, TRUE))

DashOrSlash == Cls({"-", "/"})

\* the patterns of lines 381-383; the first and the third have the i flag
DatePatterns ==
  << Cat(<<OneOrTwoDigits(1), MonthName(2), FourDigits(3), Plus(Space),
           OneOrTwoDigits(4), Lit(":"), TwoDigits(5), Lit(":"), TwoDigits(6)>>),
     Cat(<<OneOrTwoDigits(1), DashOrSlash, OneOrTwoDigits(2), DashOrSlash,
           FourDigits(3), Plus(Space), Opt(Cat(<<Lit("at"), Plus(Space)>>)),
           OneOrTwoDigits(4), Lit(":"), TwoDigits(5), Opt(Lit(":")),
           Opt(TwoDigits(6))>>),
     Cat(<<Lit("on"), Plus(Space), OneOrTwoDigits(1), Plus(Space), MonthName(2),
           Plus(Space), FourDigits(3),
           Opt(Cat(<<Plus(Space), Lit("at"), Plus(Space), OneOrTwoDigits(4),
                     Lit(":"), TwoDigits(5)>>))>>) >>

DatePatternFlags == <<TRUE, FALSE, TRUE>>

\* the date of the clock reading t in the form of getReadableDate (lines
\* 481-489); the readings of the model fall on one day
getReadableDate(t) == Str("14 Nov 2023")

\* new Date().getFullYear().toString()
CurrentYear(t) == Str("2023")

\* monthNameMap[name.toUpperCase()]: null or the month
MonthOfName(name) ==
  IF \E m \in 1..12 : toUpperCaseAll(Str(MonthNames[m])) = toUpperCaseAll(name)
  THEN Some(Str(MonthNames[CHOOSE m \in 1..12 :
              toUpperCaseAll(Str(MonthNames[m])) = toUpperCaseAll(name)]))
  ELSE NULL

\* monthMap[monthNum] || 'Jan'
MonthOfNumber(monthNum) ==
  IF Len(monthNum) = 2 /\ parseInt(monthNum) \in 1..12
  THEN Str(MonthNames[parseInt(monthNum)])
  ELSE Str("Jan")

\* `${day} ${month} ${year}`
DayMonthYear(day, month, year) ==
  NumberToString(day) \o <<" ">> \o month \o <<" ">> \o year

\* lines 399-432
formatTransactionDate(s, match, t) ==
  LET m1 == MatchGroup(s, match, 1)
      m2 == MatchGroup(s, match, 2)
      m3 == MatchGroup(s, match, 3)
  IN  IF m2 # <<>> /\ MonthOfName(m2) # NULL
      THEN DayMonthYear(parseInt(m1), MonthOfName(m2)[1],
                        IF m3 # <<>> THEN m3 ELSE CurrentYear(t))
      ELSE IF m1 # <<>> /\ m2 # <<>> /\ m3 # <<>>
      THEN DayMonthYear(parseInt(m1), MonthOfNumber(PadStart(m2, 2, "0")), m3)
      ELSE getReadableDate(t)

RECURSIVE FirstDateMatch(_, _)
\* the loop of lines 386-391: null or the first match
FirstDateMatch(s, k) ==
  IF k > Len(DatePatterns) THEN NULL
  ELSE IF StringMatch(s, DatePatterns[k], DatePatternFlags[k]) # NULL
       THEN StringMatch(s, DatePatterns[k], DatePatternFlags[k])
       ELSE FirstDateMatch(s, k + 1)

\* lines 378-394
extractTransactionDate(sms, t) ==
  IF FirstDateMatch(sms, 1) # NULL
  THEN formatTransactionDate(sms, FirstDateMatch(sms, 1), t)
  ELSE getReadableDate(t)

BankNames ==
  <<"Federal Bank", "HDFC Bank", "ICICI Bank", "SBI", "State Bank", "Axis Bank",
    "Kotak Bank", "Yes Bank", "IDFC", "PNB", "Bank of Baroda", "Canara Bank">>

\* the pattern of line 439
bankPattern == Grp(1, Alt([b \in 1..Len(BankNames) |-> Lit(BankNames[b])]))

\* lines 437-447
extractAccount(sms) ==
  LET match == StringMatch(sms, bankPattern, TRUE)
  IN  IF match # NULL
      THEN IF MatchGroup(sms, match, 1) # <<>>
           THEN MatchGroup(sms, match, 1) ELSE Str("Unknown")
      ELSE Str("Unknown")

\* lines 452-476
extractPaymentMethod(sms) ==
  LET lowerSms == toLowerCaseAll(sms)
      has(x) == includes(lowerSms, Str(x))
  IN  IF has("upi") \/ has("@") THEN Str("UPI")
      ELSE IF has("card") \/ has("atm") THEN Str("Card")
      ELSE IF has("net banking") \/ has("netbanking") THEN Str("Net Banking")
      ELSE IF has("wallet") THEN Str("Wallet")
      ELSE IF has("cash") THEN Str("Cash")
      ELSE Str("UPI")

\* [A-Za-z0-9\s@.-]
MerchantChars == Cls(Letters \cup Digits \cup Whitespace \cup {"@", ".", "-"})

\* the patterns of lines 169, 176, 183 and 190, all with the i flag
RawMerchantPatterns ==
  << Cat(<<Lit("to"), Plus(Space), Grp(1, LazyPlus(MerchantChars)),
           Alt(<<Lit(".Ref"), Cat(<<Space, Lit("on")>>), Cat(<<Space, Lit("UPI")>>),
                 Cat(<<Space, Lit("at")>>)>>)>>),
     Cat(<<Alt(<<Lit("to"), Lit("from")>>), Plus(Space),
           Grp(1, Cat(<<Plus(Cls(LowerLetters \cup Digits \cup {".", "_", "-"})),
                        Lit("@"),
                        Plus(Cls(LowerLetters \cup Digits \cup {".", "-"}))>>))>>),
     Cat(<<Lit("from"), Plus(Space), Grp(1, LazyPlus(MerchantChars)),
           Alt(<<Cat(<<Space, Lit("AC")>>), Cat(<<Space, Lit("on")>>),
                 Cat(<<Space, Lit("UPI")>>), Cat(<<Space, Lit("at")>>),
                 Lit("."), Lit(",")>>)>>),
     Cat(<<Lit("at"), Plus(Space), Grp(1, LazyPlus(MerchantChars)),
           Alt(<<Lit("."), Lit(" on"), Cat(<<Space, Lit("Ref")>>)>>)>>) >>

\* lines 167-197
extractRawMerchant(sms) ==
  LET found == FirstWithGroup(sms, RawMerchantPatterns, 1, TRUE)
  IN  IF found # NULL THEN Trim(found[1]) ELSE Unknown

\* lines 259-270: the fields parseTransactionSMS extracts from a message at
\* the clock reading t
ExtractFields(message, t) ==
  LET sms == Trim(message)
  IN  [ sms              |-> sms,
        amount           |-> extractAmount(sms),
        direction        |-> extractDirection(sms),
        transaction_id   |-> extractTransactionId(sms, t),
        transaction_date |-> extractTransactionDate(sms, t),
        account          |-> extractAccount(sms),
        payment_method   |-> extractPaymentMethod(sms),
        rawMerchant      |-> extractRawMerchant(sms) ]

(***************************************************************************)
(* parseSMS, the parser newTransactionHandler calls (src/unnamed/part_000, *)
(* lines 13-104).  Its value is [threw, error, value]: the message of the  *)
(* Error it throws, or the ParsedTransaction it returns.                   *)
(***************************************************************************)
Thrown(message) == [threw |-> TRUE, error |-> message, value |-> <<>>]

Returned(v) == [threw |-> FALSE, error |-> "", value |-> v]

\* line 17
amountPattern ==
  Cat(<<Alt(<<Cat(<<Lit("rs"), Opt(Lit("."))>>), Lit("inr"), Cls({RupeeSign})>>),
        Star(Space),
        Grp(1, Cat(<<Plus(Cls(Digits \cup {","})),
                     Opt(Cat(<<Lit("."), Rep(Digit, 2, 2, TRUE)>>))>>))>>)

\* line 25
outflowPattern ==
  Alt(<<Lit("debited"), Lit("debit"), Lit("dr"), Lit("spent"), Lit("paid"),
        Lit("withdrawn")>>)

\* line 27
inflowPattern ==
  Alt(<<Lit("credited"), Lit("credit"), Lit("cr"), Lit("received"), Lit("deposited")>>)

\* /\bword\b/i, lines 35-45
WholeWord(word) == Cat(<<WordBoundary, Lit(word), WordBoundary>>)

PaymentMethods == <<"UPI", "IMPS", "NEFT", "RTGS", "ATM", "POS">>

RECURSIVE FirstPaymentMethod(_, _)
\* the chain of tests of lines 35-49
FirstPaymentMethod(s, k) ==
  IF k > Len(PaymentMethods) THEN Str("UPI")
  ELSE IF RegExpTest(WholeWord(PaymentMethods[k]), s, TRUE)
       THEN Str(PaymentMethods[k])
       ELSE FirstPaymentMethod(s, k + 1)

\* line 52
txnIdPattern ==
  Cat(<<Alt(<<Lit("txn"), Lit("transaction"), Lit("ref"), Lit("utr"), Lit("rrn")>>),
        Star(Cls(Whitespace \cup {":"})),
        Grp(1, Plus(Cls(LowerLetters \cup Digits)))>>)

\* line 56
merchantPattern ==
  Cat(<<Alt(<<Lit("to"), Lit("at"), Lit("from"), Lit("merchant")>>),
        Plus(Space),
        Grp(1, LazyPlus(Cls(LowerLetters \cup Digits \cup Whitespace
                            \cup {"@", ".", "_", "-"}))),
        Alt(<<Cat(<<Plus(Space), Lit("on")>>), Cat(<<Plus(Space), Lit("for")>>),
              Cat(<<Plus(Space), Lit("via")>>), Lit("."),
              Cat(<<Plus(Space), Lit("ref")>>), EndOfInput>>)>>)

\* lines 61-64
dateMatch1Pattern == Cat(<<TwoDigits(1), Lit("-"), TwoDigits(2), Lit("-"), FourDigits(3)>>)

dateMatch2Pattern == Cat(<<FourDigits(1), Lit("-"), TwoDigits(2), Lit("-"), TwoDigits(3)>>)

dateMatch3Pattern == Cat(<<TwoDigits(1), Lit("/"), TwoDigits(2), Lit("/"), FourDigits(3)>>)

dateMatch4Pattern ==
  Cat(<<TwoDigits(1), Plus(Space), MonthName(2), Star(Cls(LowerLetters)),
        Plus(Space), FourDigits(3)>>)

\* line 84
timePattern ==
  Cat(<<TwoDigits(1), Lit(":"), TwoDigits(2), Opt(Cat(<<Lit(":"), TwoDigits(3)>>))>>)

\* `${a}-${b}-${c}`
Dashed(a, b, c) == a \o <<"-">> \o b \o <<"-">> \o c

\* monthMap[name.toLowerCase().substring(0, 3)] of lines 73-77
MonthNumberOfName(name) ==
  PadStart(NumberToString(CHOOSE m \in 1..12 :
             toLowerCaseAll(Str(MonthNames[m])) = toLowerCaseAll(SubSeq(name, 1, 3))),
           2, "0")

\* lines 60-81: null when no date pattern matches
ParsedDate(s) ==
  LET d1 == StringMatch(s, dateMatch1Pattern, FALSE)
      d2 == StringMatch(s, dateMatch2Pattern, FALSE)
      d3 == StringMatch(s, dateMatch3Pattern, FALSE)
      d4 == StringMatch(s, dateMatch4Pattern, TRUE)
  IN  IF d1 # NULL
      THEN Some(Dashed(MatchGroup(s, d1, 3), MatchGroup(s, d1, 2), MatchGroup(s, d1, 1)))
      ELSE IF d2 # NULL THEN Some(MatchText(s, d2))
      ELSE IF d3 # NULL
      THEN Some(Dashed(MatchGroup(s, d3, 3), MatchGroup(s, d3, 2), MatchGroup(s, d3, 1)))
      ELSE IF d4 # NULL
      THEN Some(Dashed(MatchGroup(s, d4, 3), MonthNumberOfName(MatchGroup(s, d4, 2)),
                       MatchGroup(s, d4, 1)))
      ELSE NULL

\* lines 84-85
ParsedTime(s) ==
  LET timeMatch == StringMatch(s, timePattern, FALSE)
  IN  IF timeMatch = NULL THEN Str("00:00:00")
      ELSE MatchGroup(s, timeMatch, 1) \o <<":">> \o MatchGroup(s, timeMatch, 2)
           \o <<":">> \o (IF MatchGroup(s, timeMatch, 3) # <<>>
                          THEN MatchGroup(s, timeMatch, 3) ELSE Str("00"))

\* new Date().toISOString() at the clock reading t: the readings of the model
\* begin at 2023-11-14T22:13:20.000Z and stay within the day
toISOString(t) ==
  LET seconds == 20 + (t \div 1000)
      minutes == 13 + (seconds \div 60)
      hours   == 22 + (minutes \div 60)
  IN  Str("2023-11-14T") \o PadStart(NumberToString(hours), 2, "0") \o <<":">>
      \o PadStart(NumberToString(minutes % 60), 2, "0") \o <<":">>
      \o PadStart(NumberToString(seconds % 60), 2, "0") \o <<".">>
      \o PadStart(NumberToString(t % 1000), 3, "0") \o <<"Z">>

parseSMS(message, t) ==
  LET s == Trim(message)
      amountMatch == StringMatch(s, amountPattern, TRUE)
      txnIdMatch  == StringMatch(s, txnIdPattern, TRUE)
      merchantMatch == StringMatch(s, merchantPattern, TRUE)
  IN  IF amountMatch = NULL \/ MatchGroup(s, amountMatch, 1) = <<>>
      THEN Thrown("Amount not found in SMS")
      ELSE IF ~RegExpTest(outflowPattern, s, TRUE) /\ ~RegExpTest(inflowPattern, s, TRUE)
      THEN Thrown("Transaction direction not found")
      ELSE IF ParsedDate(s) = NULL
      THEN Thrown("Date not found in SMS")
      ELSE Returned(
        [ transaction_id   |-> IF txnIdMatch = NULL THEN <<>>
                               ELSE MatchGroup(s, txnIdMatch, 1),
          transaction_date |-> ParsedDate(s)[1] \o <<" ">> \o ParsedTime(s),
          amount           |-> parseFloat(RemoveCommas(MatchGroup(s, amountMatch, 1))),
          category         |-> "",
          merchant         |-> IF merchantMatch = NULL THEN <<>>
                               ELSE Trim(MatchGroup(s, merchantMatch, 1)),
          account          |-> <<>>,
          payment_method   |-> FirstPaymentMethod(s, 1),
          direction        |-> IF RegExpTest(outflowPattern, s, TRUE)
                               THEN "Outflow" ELSE "Inflow",
          created_at       |-> toISOString(t) ])

(***************************************************************************)
(* The rule cache and the orchestrator, lines 61-64, 109-161 and 258-308.  *)
(***************************************************************************)
CACHE_DURATION_MS == 5 * 60 * 1000

GEMINI_CONFIDENCE_CAP == 70

\* the concurrent invocations of parseTransactionSMS
Procs == {"p1", "p2"}

MaxRuns == 2

MaxTicks == 2

\* the steps by which the clock advances between two events
ClockSteps == {1, CACHE_DURATION_MS - 1}

\* the raw merchant tokens of the messages the pipeline is run on
PipelineMerchants == {<<"A", "b">>, Unknown}

\* The message 'Rs 29.00 sent via UPI on 20-01-2026 at 16:35:10 to <token>.Ref:163'
\* for a merchant token, with the values the extract* functions return for it.
Message(token) ==
  [ sms              |-> <<"Rs 29.00 sent via UPI on 20-01-2026 at 16:35:10 to ",
                           token, ".Ref:163">>,
    amount           |-> 2900,
    direction        |-> "Outflow",
    transaction_id   |-> "163",
    transaction_date |-> "20 Jan 2026",
    account          |-> "Unknown",
    payment_method   |-> "UPI",
    rawMerchant      |-> token ]

Messages == {Message(t) : t \in PipelineMerchants}

\* the contents of the sheet at the time of a load
SheetVersions ==
  { <<>>,
    << Row(<<"A">>, <<"S", "w">>, "Food & Dining", <<1>>),
       Row(<<"A", "b">>, <<"S", "w", " ", "I">>, "Groceries & Home Supplies", <<5>>) >>,
    << Row(<<"b">>, <<"U", "b">>, "Transport", <<1>>),
       Row(<<"-">>, <<"M", "i">>, "Unknown", <<-1>>),
       Row(<<"A">>, <<" ">>, "Fuel", <<9>>) >> }

\* the replies of the classifier the pipeline is run on
PipelineReplies ==
  {FailedReply(k) : k \in {"reject", "garbage"}}
  \cup {ObjectReply(FALSE, c, k, m) :
          c \in {Some("Food & Dining"), Some("Pizza")},
          k \in {Num(-1), Num(99), Num(101), NotANumber},
          m \in {<<"D", "o">>}}

VARIABLES
  now,                \* Date.now()
  ticks,              \* the number of clock steps taken
  sheetsConfigured,   \* sheets && SHEETS_ID (lines 67-83)
  merchantRulesCache, \* null or the cached rule list
  lastRulesLoadTime,  \* 0 for null (both are falsy at line 112), else the time
  loadCalls,          \* the number of sheets.spreadsheets.values.get calls made
  lastLoad,           \* null or [rules, stamp] of the last load to complete
  pc,                 \* per invocation: idle, awaitSheets, resolve, awaitGemini, done
                      \* (rejected: the promise of the invocation rejected)
  runs,               \* the number of parseTransactionSMS calls made so far
  msg,                \* per invocation: null or the message being processed
  callNow,            \* per invocation: the const now of loadMerchantRules while it
                      \* awaits the sheet (0 outside)
  rules,              \* per invocation: the const rules of parseTransactionSMS
  shared,             \* per invocation: rules is the very array the cache holds
  outcome,            \* per invocation: how loadMerchantRules returned
  ruleResolution,     \* per invocation: the const ruleResolution
  geminiData,         \* per invocation: null or the const geminiData
  record,             \* per invocation: null or the ParsedTransaction returned
  trace,              \* per invocation: the steps taken so far, in order
  fnPhase,            \* position of the run of a pure function under test
  argMerchant,        \* the rawMerchant argument of the function under test
  argRows,            \* the rows returned by the rule source
  retRules,           \* the rule list built from argRows
  retResolution,      \* the value returned by resolveMerchantAndCategory
  argReply,           \* null or the reply of the classifier to the adapters
  retGemini,          \* null or the value of classifyTransactionWithGemini
  retSms,             \* null or the value of the second classifyTransaction
  retTransaction,     \* null or the value of the third classifyTransaction
  argMessage,         \* the message given to the function under test
  retFields,          \* null or the fields extracted from argMessage
  retNormalized,      \* normalizeForMatch applied once, then twice, to argMessage
  hpc,                \* newTransactionHandler: idle, awaitClassify, awaitAppend, replied
  requestBody,        \* null or request.body (null: the request has no body)
  parsedTransaction,  \* null or the const parsedTransaction of the handler
  classification,     \* null or the const classification of the handler
  replySent,          \* null or [status, body] given to reply.status().send()
  classifierCalls,    \* the number of classifyTransaction calls of the request
  appendCalls,        \* the number of values.append calls of the request
  sheetRows           \* the rows appended to the sheet Monthly Spending

cacheVars == <<merchantRulesCache, lastRulesLoadTime, loadCalls, lastLoad>>

procVars == <<pc, runs, msg, callNow, rules, shared, outcome, ruleResolution,
              geminiData, record, trace>>

pipeVars == <<now, ticks, sheetsConfigured, cacheVars, procVars>>

resolveVars == <<argRows, retRules, retResolution>>

adapterVars == <<argReply, retGemini, retSms, retTransaction>>

extractVars == <<argMessage, retFields, retNormalized>>

handlerVars == <<hpc, requestBody, parsedTransaction, classification, replySent,
                 classifierCalls, appendCalls, sheetRows>>

fnVars == <<fnPhase, argMerchant, resolveVars, adapterVars, extractVars, handlerVars>>

vars == <<pipeVars, fnVars>>

\* the state of the module before the first call (lines 62-63)
PipeInit ==
  /\ now = 1
  /\ ticks = 0
  /\ merchantRulesCache = NULL
  /\ lastRulesLoadTime = 0
  /\ loadCalls = 0
  /\ lastLoad = NULL
  /\ pc = [p \in Procs |-> "idle"]
  /\ runs = 0
  /\ msg = [p \in Procs |-> NULL]
  /\ callNow = [p \in Procs |-> 0]
  /\ rules = [p \in Procs |-> <<>>]
  /\ shared = [p \in Procs |-> FALSE]
  /\ outcome = [p \in Procs |-> "none"]
  /\ ruleResolution = [p \in Procs |-> NULL]
  /\ geminiData = [p \in Procs |-> NULL]
  /\ record = [p \in Procs |-> NULL]
  /\ trace = [p \in Procs |-> <<>>]

ResolveIdle ==
  /\ argRows = <<>>
  /\ retRules = <<>>
  /\ retResolution = NULL

AdapterIdle ==
  /\ argReply = NULL
  /\ retGemini = NULL
  /\ retSms = NULL
  /\ retTransaction = NULL

ExtractIdle ==
  /\ argMessage = <<>>
  /\ retFields = NULL
  /\ retNormalized = <<>>

\* no request has been received
HandlerIdle ==
  /\ hpc = "idle"
  /\ requestBody = NULL
  /\ parsedTransaction = NULL
  /\ classification = NULL
  /\ replySent = NULL
  /\ classifierCalls = 0
  /\ appendCalls = 0
  /\ sheetRows = <<>>

FnIdle ==
  /\ fnPhase = "none"
  /\ argMerchant = <<>>
  /\ ResolveIdle
  /\ AdapterIdle
  /\ ExtractIdle
  /\ HandlerIdle

Init == PipeInit /\ sheetsConfigured \in BOOLEAN /\ FnIdle

\* a mutation of the freshness test: <= instead of <
IsFreshInclusive(t) ==
  /\ merchantRulesCache # NULL
  /\ lastRulesLoadTime # 0
  /\ t - lastRulesLoadTime <= CACHE_DURATION_MS

\* line 112: merchantRulesCache && lastRulesLoadTime && (now - last < CACHE_DURATION_MS)
IsFresh(t) ==
  /\ merchantRulesCache # NULL
  /\ lastRulesLoadTime # 0
  /\ t - lastRulesLoadTime < CACHE_DURATION_MS

\* a mutation of the cache update: the new rows are added to the cached ones
CacheAfterLoadMerged(cache, loaded) ==
  Some((IF cache = NULL THEN <<>> ELSE cache[1]) \o loaded)

\* line 151: merchantRulesCache = rules
CacheAfterLoad(cache, loaded) == Some(loaded)

\* a mutation of the catch block: the cache is dropped on a failed load
CacheAfterFailureCleared(cache) == NULL

\* lines 156-160: the catch block assigns nothing
CacheAfterFailure(cache) == cache

\* a mutation of the catch block: the failure is stamped like a load
StampAfterFailureAsLoaded(stamp, t) == t

\* lines 156-160: the catch block does not assign lastRulesLoadTime
StampAfterFailure(stamp, t) == stamp

\* line 159: merchantRulesCache || []
CachedOrEmpty(cache) == IF cache = NULL THEN <<>> ELSE cache[1]

\* a mutation of the cap: the classifier's confidence is taken as it is
CapConfidenceNone(confidence) == confidence

\* line 291: Math.min(geminiData.confidence, 0.7)
CapConfidence(confidence) ==
  IF confidence < GEMINI_CONFIDENCE_CAP THEN confidence ELSE GEMINI_CONFIDENCE_CAP

\* get12HourTime (lines 494-504) shows the clock to the minute
get12HourTime(t) == t \div 60000

\* the object returned at lines 295-307
ParsedTransaction(m, merchant, category, confidence, t) ==
  [ transaction_id   |-> m.transaction_id,
    transaction_date |-> m.transaction_date,
    amount           |-> m.amount,
    category         |-> category,
    merchant         |-> merchant,
    account          |-> m.account,
    payment_method   |-> m.payment_method,
    direction        |-> m.direction,
    created_at       |-> get12HourTime(t),
    raw_message      |-> m.sms,
    confidence       |-> confidence ]

\* parseTransactionSMS is called: lines 259-270 extract the fields, then
\* loadMerchantRules runs up to its first await or return (lines 109-126)
Start(p, m) ==
  /\ pc[p] = "idle"
  /\ runs < MaxRuns
  /\ runs' = runs + 1
  /\ msg' = [msg EXCEPT ![p] = Some(m)]
  /\ IF IsFresh(now)
     THEN /\ rules' = [rules EXCEPT ![p] = merchantRulesCache[1]]
          /\ shared' = [shared EXCEPT ![p] = TRUE]
          /\ outcome' = [outcome EXCEPT ![p] = "hit"]
          /\ pc' = [pc EXCEPT ![p] = "resolve"]
          /\ trace' = [trace EXCEPT ![p] = <<"extract", "rules">>]
          /\ UNCHANGED <<callNow, loadCalls>>
     ELSE IF ~sheetsConfigured
     THEN /\ rules' = [rules EXCEPT ![p] = <<>>]
          /\ outcome' = [outcome EXCEPT ![p] = "unconfigured"]
          /\ UNCHANGED shared
          /\ pc' = [pc EXCEPT ![p] = "resolve"]
          /\ trace' = [trace EXCEPT ![p] = <<"extract", "rules">>]
          /\ UNCHANGED <<callNow, loadCalls>>
     ELSE /\ callNow' = [callNow EXCEPT ![p] = now]
          /\ loadCalls' = loadCalls + 1
          /\ pc' = [pc EXCEPT ![p] = "awaitSheets"]
          /\ trace' = [trace EXCEPT ![p] = <<"extract">>]
          /\ UNCHANGED <<rules, shared, outcome>>
  /\ UNCHANGED <<now, ticks, sheetsConfigured, merchantRulesCache, lastRulesLoadTime,
                 lastLoad, ruleResolution, geminiData, record, fnVars>>

\* a mutation of the loader: a load waits while another invocation's load is
\* in flight
AwaitsOtherLoadInFlight(p, pcs) == \E q \in Procs \ {p} : pcs[q] = "awaitSheets"

\* lines 109-123: the loader keeps no in-flight promise and takes no lock; an
\* invocation that finds the cache stale sends its own request at line 123
\* and awaits nothing but that request
AwaitsOtherLoad(p, pcs) == FALSE

\* the sheet answers with rows: lines 128-155
SheetsReply(p, rows) ==
  /\ pc[p] = "awaitSheets"
  /\ ~AwaitsOtherLoad(p, pc)
  /\ \E loaded \in {ParseRows(rows)} :
       /\ merchantRulesCache' = CacheAfterLoad(merchantRulesCache, loaded)
       /\ lastLoad' = Some([rules |-> loaded, stamp |-> callNow[p]])
       /\ rules' = [rules EXCEPT ![p] = loaded]
  /\ lastRulesLoadTime' = callNow[p]
  /\ shared' = [q \in Procs |-> q = p]
  /\ outcome' = [outcome EXCEPT ![p] = "loaded"]
  /\ pc' = [pc EXCEPT ![p] = "resolve"]
  /\ trace' = [trace EXCEPT ![p] = Append(@, "rules")]
  /\ callNow' = [callNow EXCEPT ![p] = 0]
  /\ UNCHANGED <<now, ticks, sheetsConfigured, loadCalls, runs, msg,
                 ruleResolution, geminiData, record, fnVars>>

\* a mutation of the catch block: the error of the sheet request is thrown on
loadMerchantRulesCatchRethrows(cache) == [threw |-> TRUE, value |-> <<>>]

\* the catch block of lines 156-160 around the await of line 123: it returns
\* a list and throws nothing
loadMerchantRulesCatch(cache) == [threw |-> FALSE, value |-> CachedOrEmpty(cache)]

\* the sheet request fails: lines 156-160; an error that left
\* loadMerchantRules would reject parseTransactionSMS at line 273
SheetsFail(p) ==
  /\ pc[p] = "awaitSheets"
  /\ ~AwaitsOtherLoad(p, pc)
  /\ merchantRulesCache' = CacheAfterFailure(merchantRulesCache)
  /\ lastRulesLoadTime' = StampAfterFailure(lastRulesLoadTime, callNow[p])
  /\ IF loadMerchantRulesCatch(merchantRulesCache).threw
     THEN /\ pc' = [pc EXCEPT ![p] = "rejected"]
          /\ outcome' = [outcome EXCEPT ![p] = "threw"]
          /\ UNCHANGED <<rules, shared, trace>>
     ELSE /\ rules' = [rules EXCEPT ![p] = loadMerchantRulesCatch(merchantRulesCache).value]
          /\ shared' = [shared EXCEPT ![p] = merchantRulesCache # NULL]
          /\ outcome' = [outcome EXCEPT ![p] = "failed"]
          /\ pc' = [pc EXCEPT ![p] = "resolve"]
          /\ trace' = [trace EXCEPT ![p] = Append(@, "rules")]
  /\ callNow' = [callNow EXCEPT ![p] = 0]
  /\ UNCHANGED <<now, ticks, sheetsConfigured, loadCalls, lastLoad,
                 runs, msg, ruleResolution, geminiData, record, fnVars>>

\* a mutation of the branch of line 280: the classifier is called in any case
NeedsFallbackAlways(resolution) == TRUE

\* line 280: the else branch is taken when ruleResolution is null
NeedsFallback(resolution) == resolution = NULL

\* a mutation of the resolver: the list is put in another order in place
RulesAfterResolveReversed(rs) == [i \in 1..Len(rs) |-> rs[Len(rs) + 1 - i]]

\* the list after lines 223-236: filter and reduce build new values and
\* assign nothing to the list or to its rules
RulesAfterResolve(rs) == rs

\* parseTransactionSMS resumes with the rules: lines 274-288, and 295-307 on a
\* match; what the resolver does to its list is done to the one array, which
\* the cache and other invocations may hold too
ResolveStep(p) ==
  /\ pc[p] = "resolve"
  /\ rules' = [q \in Procs |->
                IF q = p \/ (shared[p] /\ shared[q])
                THEN RulesAfterResolve(rules[q]) ELSE rules[q]]
  /\ merchantRulesCache' =
       IF shared[p] THEN Some(RulesAfterResolve(merchantRulesCache[1]))
       ELSE merchantRulesCache
  /\ \E resolution \in {resolveMerchantAndCategory(msg[p][1].rawMerchant, rules[p])} :
         /\ ruleResolution' = [ruleResolution EXCEPT ![p] = resolution]
         /\ IF NeedsFallback(resolution)
            THEN /\ pc' = [pc EXCEPT ![p] = "awaitGemini"]
                 /\ trace' = [trace EXCEPT ![p] = @ \o <<"resolve", "classify">>]
                 /\ UNCHANGED record
            ELSE /\ pc' = [pc EXCEPT ![p] = "done"]
                 /\ trace' = [trace EXCEPT ![p] = Append(@, "resolve")]
                 /\ record' = [record EXCEPT ![p] =
                      Some(ParsedTransaction(msg[p][1], resolution[1].merchant,
                             resolution[1].category, resolution[1].confidence, now))]
  /\ UNCHANGED <<now, ticks, sheetsConfigured, lastRulesLoadTime, loadCalls, lastLoad,
                 runs, msg, callNow, shared, outcome, geminiData, fnVars>>

\* the classifier answers or fails: lines 543-576, then 289-307
GeminiReply(p, reply) ==
  /\ pc[p] = "awaitGemini"
  /\ LET data == classifyTransactionWithGemini(reply, msg[p][1].rawMerchant)
     IN  /\ geminiData' = [geminiData EXCEPT ![p] = Some(data)]
         /\ record' = [record EXCEPT ![p] =
              Some(ParsedTransaction(msg[p][1], data.merchant, data.category,
                     CapConfidence(data.confidence), now))]
  /\ pc' = [pc EXCEPT ![p] = "done"]
  /\ UNCHANGED <<now, ticks, sheetsConfigured, cacheVars, runs, msg, callNow, rules,
                 shared, outcome, ruleResolution, trace, fnVars>>

\* the caller has taken the record; the slot is free for the next message
Return(p) ==
  /\ pc[p] \in {"done", "rejected"}
  /\ pc' = [pc EXCEPT ![p] = "idle"]
  /\ msg' = [msg EXCEPT ![p] = NULL]
  /\ callNow' = [callNow EXCEPT ![p] = 0]
  /\ rules' = [rules EXCEPT ![p] = <<>>]
  /\ shared' = [shared EXCEPT ![p] = FALSE]
  /\ outcome' = [outcome EXCEPT ![p] = "none"]
  /\ ruleResolution' = [ruleResolution EXCEPT ![p] = NULL]
  /\ geminiData' = [geminiData EXCEPT ![p] = NULL]
  /\ record' = [record EXCEPT ![p] = NULL]
  /\ trace' = [trace EXCEPT ![p] = <<>>]
  /\ UNCHANGED <<now, ticks, sheetsConfigured, cacheVars, runs, fnVars>>

\* time passes while the event loop is idle or waits for a reply; a
\* continuation of a settled promise runs before the clock is read again
Tick(d) ==
  /\ ticks < MaxTicks
  /\ \A p \in Procs : pc[p] \in {"idle", "awaitSheets", "awaitGemini"}
  /\ now' = now + d
  /\ ticks' = ticks + 1
  /\ UNCHANGED <<sheetsConfigured, cacheVars, procVars, fnVars>>

Next ==
  \/ \E p \in Procs, m \in Messages : Start(p, m)
  \/ \E p \in Procs, rows \in SheetVersions : SheetsReply(p, rows)
  \/ \E p \in Procs : SheetsFail(p)
  \/ \E p \in Procs : ResolveStep(p)
  \/ \E p \in Procs, reply \in PipelineReplies : GeminiReply(p, reply)
  \/ \E p \in Procs : Return(p)
  \/ \E d \in ClockSteps : Tick(d)

Spec == Init /\ [][Next]_vars

\* the request an invocation awaits settles: the sheet request of line 123
\* returns rows or fails
SheetsSettles(p) == (\E rows \in SheetVersions : SheetsReply(p, rows)) \/ SheetsFail(p)

\* the replies of the classifier in the runs that are followed to their end:
\* a failed call and an answer
SettlingReplies ==
  { FailedReply("reject"),
    ObjectReply(FALSE, Some("Food & Dining"), Num(99), <<"D", "o">>) }

\* the classifier request of line 288 returns or fails
GeminiSettles(p) == \E reply \in SettlingReplies : GeminiReply(p, reply)

\* the same steps as Next, the clock advancing by the longer step only
NextFair ==
  \/ \E p \in Procs, m \in Messages : Start(p, m)
  \/ \E p \in Procs : SheetsSettles(p)
  \/ \E p \in Procs : ResolveStep(p)
  \/ \E p \in Procs : GeminiSettles(p)
  \/ \E p \in Procs : Return(p)
  \/ Tick(CACHE_DURATION_MS - 1)

\* the pipeline under the assumption that every external call eventually
\* returns or fails, and that the event loop runs the continuation of a
\* settled promise
FairSpec ==
  /\ Init
  /\ [][NextFair]_vars
  /\ \A p \in Procs :
       /\ WF_vars(SheetsSettles(p))
       /\ WF_vars(ResolveStep(p))
       /\ WF_vars(GeminiSettles(p))

\* the values extractRawMerchant returns: a trimmed token, or 'Unknown'
RawMerchants(n) == {s \in Strings(n) : Trim(s) = s} \cup {Unknown}

(***************************************************************************)
(* Specification of the resolver as a function: a raw merchant and a       *)
(* table of the rule source are chosen, the table is loaded as             *)
(* loadMerchantRules loads it and the merchant is resolved against it.     *)
(***************************************************************************)
InitResolve ==
  /\ PipeInit
  /\ sheetsConfigured = TRUE
  /\ fnPhase = "rows"
  /\ argMerchant \in RawMerchants(MaxLen)
  /\ argRows \in SheetTables(MaxRules)
  /\ retRules = <<>>
  /\ retResolution = NULL
  /\ AdapterIdle
  /\ ExtractIdle
  /\ HandlerIdle

LoadRules ==
  /\ fnPhase = "rows"
  /\ retRules' = ParseRows(argRows)
  /\ fnPhase' = "rules"
  /\ UNCHANGED <<argMerchant, argRows, retResolution, adapterVars, extractVars,
                 handlerVars, pipeVars>>

Resolve ==
  /\ fnPhase = "rules"
  /\ retResolution' = resolveMerchantAndCategory(argMerchant, retRules)
  /\ fnPhase' = "resolved"
  /\ UNCHANGED <<argMerchant, argRows, retRules, adapterVars, extractVars,
                 handlerVars, pipeVars>>

NextResolve == LoadRules \/ Resolve

SpecResolve == InitResolve /\ [][NextResolve]_vars

(***************************************************************************)
(* Specification of the three classifier adapters as functions of the      *)
(* reply: a reply and a raw merchant token are chosen and each adapter is  *)
(* run on them.                                                            *)
(***************************************************************************)
\* the raw merchant tokens the adapters are run on
AdapterMerchants == {<<"A", "b">>, <<"-">>, Unknown}

InitAdapter ==
  /\ PipeInit
  /\ sheetsConfigured = TRUE
  /\ fnPhase = "reply"
  /\ argMerchant \in AdapterMerchants
  /\ argReply \in {Some(r) : r \in GeminiReplies}
  /\ ResolveIdle
  /\ ExtractIdle
  /\ HandlerIdle
  /\ retGemini = NULL
  /\ retSms = NULL
  /\ retTransaction = NULL

RunGemini ==
  /\ fnPhase = "reply"
  /\ retGemini = NULL
  /\ retGemini' = Some(classifyTransactionWithGemini(argReply[1], argMerchant))
  /\ UNCHANGED <<fnPhase, argMerchant, argReply, retSms, retTransaction, resolveVars,
                 extractVars, handlerVars, pipeVars>>

RunSms ==
  /\ fnPhase = "reply"
  /\ retSms = NULL
  /\ retSms' = Some(classifyTransactionSms(argReply[1]))
  /\ UNCHANGED <<fnPhase, argMerchant, argReply, retGemini, retTransaction, resolveVars,
                 extractVars, handlerVars, pipeVars>>

RunTransaction ==
  /\ fnPhase = "reply"
  /\ retTransaction = NULL
  /\ retTransaction' = Some(classifyTransaction(argReply[1]))
  /\ UNCHANGED <<fnPhase, argMerchant, argReply, retGemini, retSms, resolveVars,
                 extractVars, handlerVars, pipeVars>>

NextAdapter == RunGemini \/ RunSms \/ RunTransaction

SpecAdapter == InitAdapter /\ [][NextAdapter]_vars

(***************************************************************************)
(* Specification of the field extraction of parseTransactionSMS as a       *)
(* function of the message: a message is put together from parts of bank   *)
(* messages and lines 259-270 are run on it.                               *)
(***************************************************************************)
MaxParts == 3

\* parts of messages: amounts, direction keywords, dates with and without a
\* time of day, merchants with and without a name
SmsParts ==
  { "Rs 29.00", "Rs ,", " credited", " debited", " on 20-01-2026", " at 16:35:10",
    " to Ab.Ref:163", " to  .Ref", " on 17 Jan 2026" }

RECURSIVE Join(_)
\* the text made of the parts, in order
Join(parts) == IF Len(parts) = 0 THEN <<>> ELSE Str(Head(parts)) \o Join(Tail(parts))

\* the messages made of at most n different parts, in any order
SmsTexts(n) ==
  { Join(ps) : ps \in UNION { {f \in [1..k -> SmsParts] :
                                 \A i, j \in 1..k : i # j => f[i] # f[j]} :
                              k \in 0..n } }

InitExtract ==
  /\ PipeInit
  /\ sheetsConfigured = TRUE
  /\ fnPhase = "message"
  /\ argMerchant = <<>>
  /\ argMessage \in SmsTexts(MaxParts)
  /\ retFields = NULL
  /\ retNormalized = <<>>
  /\ ResolveIdle
  /\ AdapterIdle
  /\ HandlerIdle

\* lines 259-270 of parseTransactionSMS
ExtractStep ==
  /\ fnPhase = "message"
  /\ retFields' = Some(ExtractFields(argMessage, now))
  /\ fnPhase' = "extracted"
  /\ UNCHANGED <<argMerchant, argMessage, retNormalized, resolveVars, adapterVars,
                 handlerVars, pipeVars>>

NextExtract == ExtractStep

SpecExtract == InitExtract /\ [][NextExtract]_vars

(***************************************************************************)
(* Specification of newTransactionHandler (finance.controller.ts, lines    *)
(* 10-62) on one request: the message is parsed by parseSMS, classified by *)
(* the third classifyTransaction and appended to the sheet by              *)
(* appendTransactionToSheet (src/unnamed/part_001, lines 22-53).           *)
(***************************************************************************)
\* parts of the messages sent to the handler
RequestParts ==
  {"Rs 29.00", " paid", " credited", " on 20-01-2026", " to Ab", " ref 163"}

\* the messages made of at most n different parts, in any order
RequestTexts(n) ==
  { Join(ps) : ps \in UNION { {f \in [1..k -> RequestParts] :
                                 \A i, j \in 1..k : i # j => f[i] # f[j]} :
                              k \in 0..n } }

\* request.body: absent, or an object with the key message
RequestBodies(n) == {NULL} \cup {Some(m) : m \in RequestTexts(n)}

\* reply.status(code).send({ error })
ErrorReply(code, message) == [status |-> code, error |-> message, body |-> NULL]

\* a mutation of lines 44-48: a failed append is answered like a success
sheets_write_failed_as_ok(parsed, result) ==
  [ status |-> 200, error |-> "",
    body |-> Some([transaction |-> parsed, category |-> result.category,
                   confidence |-> result.confidence]) ]

\* lines 44-48: appendTransactionToSheet rejected with the Error of line 51
sheets_write_failed(parsed, result) ==
  ErrorReply(500, "Failed to write to Google Sheets: Unknown error")

\* lines 52-56: the parsed transaction with the category and the confidence
transaction_ingested(parsed, result) ==
  [ status |-> 200, error |-> "",
    body |-> Some([transaction |-> parsed, category |-> result.category,
                   confidence |-> result.confidence]) ]

\* the row of lines 27-37
SheetRow(transaction, category) ==
  << transaction.transaction_id, transaction.transaction_date, transaction.amount,
     category, transaction.merchant, transaction.account,
     transaction.payment_method, transaction.direction, transaction.created_at >>

InitHandler ==
  /\ PipeInit
  /\ sheetsConfigured = TRUE
  /\ fnPhase = "none"
  /\ argMerchant = <<>>
  /\ ResolveIdle
  /\ AdapterIdle
  /\ ExtractIdle
  /\ HandlerIdle

\* the handler is called and runs to its first await or reply: lines 14-34
Receive(body) ==
  /\ hpc = "idle"
  /\ requestBody' = body
  /\ IF body = NULL
     THEN /\ replySent' = Some(ErrorReply(500,
                 "Cannot destructure property 'message' of 'request.body'"))
          /\ hpc' = "replied"
          /\ UNCHANGED <<parsedTransaction, classifierCalls>>
     ELSE IF body[1] = <<>>
     THEN /\ replySent' = Some(ErrorReply(400, "Message is required"))
          /\ hpc' = "replied"
          /\ UNCHANGED <<parsedTransaction, classifierCalls>>
     ELSE IF parseSMS(body[1], now).threw
     THEN /\ replySent' = Some(ErrorReply(400, parseSMS(body[1], now).error))
          /\ hpc' = "replied"
          /\ UNCHANGED <<parsedTransaction, classifierCalls>>
     ELSE /\ parsedTransaction' = Some(parseSMS(body[1], now).value)
          /\ classifierCalls' = classifierCalls + 1
          /\ hpc' = "awaitClassify"
          /\ UNCHANGED replySent
  /\ UNCHANGED <<classification, appendCalls, sheetRows, fnPhase, argMerchant,
                 resolveVars, adapterVars, extractVars, pipeVars>>

\* the classifier call settles; classifyTransaction returns a value in every
\* case, and the handler calls appendTransactionToSheet: lines 34-43
ClassifierAnswers(reply) ==
  /\ hpc = "awaitClassify"
  /\ argReply' = Some(reply)
  /\ classification' = Some(classifyTransaction(reply))
  /\ appendCalls' = appendCalls + 1
  /\ hpc' = "awaitAppend"
  /\ UNCHANGED <<requestBody, parsedTransaction, replySent, classifierCalls,
                 sheetRows, fnPhase, argMerchant, resolveVars, retGemini, retSms,
                 retTransaction, extractVars, pipeVars>>

\* values.append succeeds: lines 40-48 of part_001, then 51-56 of the handler
AppendSucceeds ==
  /\ hpc = "awaitAppend"
  /\ sheetRows' = Append(sheetRows,
                         SheetRow(parsedTransaction[1], classification[1].category))
  /\ replySent' = Some(transaction_ingested(parsedTransaction[1], classification[1]))
  /\ hpc' = "replied"
  /\ UNCHANGED <<requestBody, parsedTransaction, classification, classifierCalls,
                 appendCalls, fnPhase, argMerchant, resolveVars, adapterVars,
                 extractVars, pipeVars>>

\* values.append fails: lines 50-52 of part_001, then 44-48 of the handler
AppendFails ==
  /\ hpc = "awaitAppend"
  /\ replySent' = Some(sheets_write_failed(parsedTransaction[1], classification[1]))
  /\ hpc' = "replied"
  /\ UNCHANGED <<requestBody, parsedTransaction, classification, classifierCalls,
                 appendCalls, sheetRows, fnPhase, argMerchant, resolveVars,
                 adapterVars, extractVars, pipeVars>>

NextHandler ==
  \/ \E body \in RequestBodies(MaxParts) : Receive(body)
  \/ \E reply \in PipelineReplies : ClassifierAnswers(reply)
  \/ AppendSucceeds
  \/ AppendFails

SpecHandler == InitHandler /\ [][NextHandler]_vars

(***************************************************************************)
(* Specification of normalizeForMatch as a function: it is applied to a    *)
(* text and then to its own result.                                        *)
(***************************************************************************)
\* one character of every kind the function treats differently: upper and
\* lower case letters, a digit, '@', a space, a tab and a stripped character
NormalizeChars == {"A", "b", "1", "@", " ", "\t", "-"}

\* the texts of at most n such characters
NormalizeInputs(n) == UNION {[1..k -> NormalizeChars] : k \in 0..n}

InitNormalize ==
  /\ PipeInit
  /\ sheetsConfigured = TRUE
  /\ fnPhase = "input"
  /\ argMerchant = <<>>
  /\ argMessage \in NormalizeInputs(MaxLen)
  /\ retFields = NULL
  /\ retNormalized = <<>>
  /\ ResolveIdle
  /\ AdapterIdle
  /\ HandlerIdle

NormalizeOnce ==
  /\ fnPhase = "input"
  /\ retNormalized' = <<normalizeForMatch(argMessage)>>
  /\ fnPhase' = "once"
  /\ UNCHANGED <<argMerchant, argMessage, retFields, resolveVars, adapterVars,
                 handlerVars, pipeVars>>

NormalizeAgain ==
  /\ fnPhase = "once"
  /\ retNormalized' = Append(retNormalized, normalizeForMatch(retNormalized[1]))
  /\ fnPhase' = "twice"
  /\ UNCHANGED <<argMerchant, argMessage, retFields, resolveVars, adapterVars,
                 handlerVars, pipeVars>>

NextNormalize == NormalizeOnce \/ NormalizeAgain

SpecNormalize == InitNormalize /\ [][NextNormalize]_vars

(***************************************************************************)
(* Claims about the resolver, checked under SpecResolve.                   *)
(***************************************************************************)
\* the guards of lines 212 and 219 let the merchant through to the rule filter
Resolvable(m) == m # <<>> /\ m # Unknown /\ normalizeForMatch(m) # <<>>

\* positions of the rules whose pattern the normalized merchant contains
MatchingIdx(m, rs) ==
  {i \in 1..Len(rs) : includes(normalizeForMatch(m), rs[i].match_pattern)}

\* the first position, in list order, among those of maximal priority
BestIdx(m, rs) ==
  CHOOSE i \in MatchingIdx(m, rs) :
    \A j \in MatchingIdx(m, rs) :
      /\ rs[j].priority <= rs[i].priority
      /\ rs[j].priority = rs[i].priority => i <= j

\* C1: when at least one rule matches, resolveMerchantAndCategory returns the
\* merchant and category of the matching rule of highest priority, whatever
\* the order of the list, and of the first such rule in the list on a tie.
C1_HighestPriorityFirstOnTie ==
  (fnPhase = "resolved" /\ Resolvable(argMerchant)
     /\ MatchingIdx(argMerchant, retRules) # {})
  => /\ retResolution # NULL
     /\ retResolution[1].merchant =
          retRules[BestIdx(argMerchant, retRules)].canonical_merchant
     /\ retResolution[1].category =
          retRules[BestIdx(argMerchant, retRules)].category

\* C1 witness: three rules match, a rule of lower priority comes first and two
\* different rules tie on the highest priority; the earlier of the two is returned.
C1_Witness ==
  /\ fnPhase = "resolved"
  /\ Resolvable(argMerchant)
  /\ \E i, j, k \in MatchingIdx(argMerchant, retRules) :
       /\ i < j /\ j < k
       /\ retRules[i].priority < retRules[j].priority
       /\ retRules[j].priority = retRules[k].priority
       /\ retRules[j].canonical_merchant # retRules[k].canonical_merchant
       /\ j = BestIdx(argMerchant, retRules)
       /\ retResolution # NULL
       /\ retResolution[1].merchant = retRules[j].canonical_merchant

\* C2 (as claimed): for a raw merchant that is non-empty and not 'Unknown', a
\* rule loaded from a row with raw pattern p is a match (resolution against
\* that rule alone returns it) if and only if normalizeForMatch of the
\* merchant contains normalizeForMatch(p).
C2_MatchIffNormalizedContains ==
  (fnPhase = "resolved" /\ argMerchant # <<>> /\ argMerchant # Unknown)
  => \A i \in 1..Len(argRows) :
       ~IsInvalidRow(argRows[i]) =>
         ( resolveMerchantAndCategory(argMerchant, <<RuleOfRow(argRows[i])>>) # NULL
           <=> includes(normalizeForMatch(argMerchant),
                        normalizeForMatch(argRows[i].pattern)) )

(***************************************************************************)
(* Claims about the classifier adapters, checked under SpecAdapter.        *)
(***************************************************************************)
\* the reply parses and its category is outside ALLOWED_CATEGORIES
HasInvalidCategory(reply) == ParsesToObject(reply) /\ ~IsAllowedCategory(reply.category)

\* the reply parses and its confidence is not a number in [0, 1]
HasInvalidConfidence(reply) == ParsesToObject(reply) /\ ~IsValidConfidence(reply.confidence)

\* C5 (as claimed): every version of the adapter turns a reply whose category
\* is not allowed into category "Unknown" with confidence 0, and a reply whose
\* confidence is not a number in [0,1] into confidence 0.
C5_InvalidCategoryBecomesUnknown ==
  \A ret \in {retGemini, retSms, retTransaction} :
    (ret # NULL)
    => /\ HasInvalidCategory(argReply[1])
            => (ret[1].category = "Unknown" /\ ret[1].confidence = 0)
       /\ HasInvalidConfidence(argReply[1]) => ret[1].confidence = 0

\* the fallback path failed: the call or the parse failed, or the reply did
\* not pass the category or the confidence validation
IsFailure(reply) ==
  ~ParsesToObject(reply) \/ HasInvalidCategory(reply) \/ HasInvalidConfidence(reply)

\* C6 (as claimed): on any failure classifyTransactionWithGemini returns
\* category "Unknown", confidence 0 and the raw merchant token as merchant.
C6_FailureGivesUnknownZeroRawMerchant ==
  (retGemini # NULL /\ IsFailure(argReply[1]))
  => /\ retGemini[1].category = "Unknown"
     /\ retGemini[1].confidence = 0
     /\ retGemini[1].merchant = argMerchant

(***************************************************************************)
(* Claims about the rule cache and the orchestrator, checked under Spec.   *)
(***************************************************************************)
\* C3 (as claimed): when a rule matches, the record returned by
\* parseTransactionSMS carries the rule's merchant and category, confidence
\* 0.95 and a source that marks it as a rule match, and nothing of the classifier.
C3_RuleMatchRecordCarriesSource ==
  \A p \in Procs :
    (pc[p] = "done" /\ ruleResolution[p] # NULL)
    => /\ record[p][1].merchant = ruleResolution[p][1].merchant
       /\ record[p][1].category = ruleResolution[p][1].category
       /\ record[p][1].confidence = 95
       /\ geminiData[p] = NULL
       /\ "source" \in DOMAIN record[p][1]
       /\ record[p][1].source = "rules"

\* C4: in a run in which no rule matches, the confidence of the record is at
\* most 0.7 and at least 0, whatever the classifier answered.
C4_FallbackConfidenceCapped ==
  \A p \in Procs :
    (pc[p] = "done" /\ ruleResolution[p] = NULL)
    => (record[p][1].confidence >= 0 /\ record[p][1].confidence <= 70)

\* C4 witness: the classifier reported 0.99 and the record carries 0.7.
C4_Witness ==
  \E p \in Procs :
    /\ pc[p] = "done"
    /\ ruleResolution[p] = NULL
    /\ geminiData[p] # NULL
    /\ geminiData[p][1].confidence = 99
    /\ record[p][1].confidence = 70

\* C7: a call of loadMerchantRules made while a list is cached and younger
\* than the TTL returns that list and makes no external load; at an age of
\* the TTL or more it makes one.  Hence when the second of two calls is
\* served from the cache, one external load was made in all.
C7_FreshCacheServedWithoutLoad ==
  /\ [](\A p \in Procs : (outcome[p] = "hit" /\ runs = 2) => loadCalls = 1)
  /\ [][ \A p \in Procs :
          (pc[p] = "idle" /\ pc'[p] # "idle")
          => /\ (merchantRulesCache # NULL
                   /\ now - lastRulesLoadTime < 300000)
                => /\ rules'[p] = merchantRulesCache[1]
                   /\ pc'[p] = "resolve"
                   /\ loadCalls' = loadCalls
                   /\ merchantRulesCache' = merchantRulesCache
                   /\ lastRulesLoadTime' = lastRulesLoadTime
             /\ (merchantRulesCache # NULL
                   /\ now - lastRulesLoadTime >= 300000)
                => /\ pc'[p] = "awaitSheets"
                   /\ loadCalls' = loadCalls + 1 ]_vars

\* C7 witness: the second of two calls is served from a cache one millisecond
\* short of the TTL, and one external load was made in all.
C7_Witness ==
  \E p \in Procs :
    /\ outcome[p] = "hit"
    /\ pc[p] = "resolve"
    /\ runs = 2
    /\ loadCalls = 1
    /\ now - lastRulesLoadTime = 299999
    /\ rules[p] = merchantRulesCache[1]
    /\ Len(rules[p]) > 0

\* C8: a failed load does not raise, returns the cached list (the empty list
\* if there is none) and leaves the cache and its timestamp as they were.
C8_StaleOnError ==
  [][ \A p \in Procs :
        (pc[p] = "awaitSheets" /\ outcome'[p] = "failed")
        => /\ pc'[p] = "resolve"
           /\ rules'[p] = (IF merchantRulesCache = NULL THEN <<>>
                           ELSE merchantRulesCache[1])
           /\ merchantRulesCache' = merchantRulesCache
           /\ lastRulesLoadTime' = lastRulesLoadTime ]_vars

\* C8 witness: a refresh of an expired, non-empty cache failed and the caller
\* got the stale rules, which are still cached.
C8_Witness ==
  \E p \in Procs :
    /\ outcome[p] = "failed"
    /\ pc[p] = "resolve"
    /\ merchantRulesCache # NULL
    /\ Len(merchantRulesCache[1]) > 0
    /\ rules[p] = merchantRulesCache[1]
    /\ now - lastRulesLoadTime >= 300000

\* the rule lists that are the complete result of one load
LoadResults == {ParseRows(t) : t \in SheetVersions}

\* C9: under every interleaving, the cached list and every list handed out
\* are the complete result of one load, the cached list and timestamp are
\* those of the last load to complete, and the two change only together, in
\* the one step in which a load completes.
C9_AtomicReplaceLastWins ==
  /\ [](/\ merchantRulesCache # NULL
            => /\ lastLoad # NULL
               /\ merchantRulesCache[1] = lastLoad[1].rules
               /\ lastRulesLoadTime = lastLoad[1].stamp
               /\ merchantRulesCache[1] \in LoadResults
        /\ \A p \in Procs :
             outcome[p] \in {"hit", "loaded", "failed"}
             => rules[p] \in LoadResults \cup {<<>>})
  /\ [][ (merchantRulesCache' # merchantRulesCache
            \/ lastRulesLoadTime' # lastRulesLoadTime)
         => \E p \in Procs :
              /\ pc[p] = "awaitSheets"
              /\ outcome'[p] = "loaded"
              /\ merchantRulesCache' = Some(rules'[p])
              /\ lastRulesLoadTime' = callNow[p] ]_vars

\* C9 witness: two invocations each completed a load of different contents;
\* the cache holds one of the two lists, whole.
C9_Witness ==
  \E p, q \in Procs :
    /\ p # q
    /\ outcome[p] = "loaded" /\ outcome[q] = "loaded"
    /\ pc[p] = "resolve" /\ pc[q] = "resolve"
    /\ Len(rules[p]) > 0 /\ Len(rules[q]) > 0
    /\ rules[p] # rules[q]
    /\ merchantRulesCache = Some(rules[q])
    /\ loadCalls = 2

\* the order of the steps of one run
RunOrder == <<"extract", "rules", "resolve", "classify">>

\* C10: the steps of a run happen in the order extract, rules, resolve, and
\* the classifier is called exactly when resolution returned no match, once
\* and after the rules were obtained.
C10_ClassifierOnlyOnNoMatch ==
  \A p \in Procs :
    /\ Len(trace[p]) <= 4
    /\ trace[p] = SubSeq(RunOrder, 1, Len(trace[p]))
    /\ pc[p] = "awaitGemini" => (ruleResolution[p] = NULL /\ Len(trace[p]) = 4)
    /\ pc[p] = "done"
       => /\ ruleResolution[p] = NULL <=> Len(trace[p]) = 4
          /\ ruleResolution[p] # NULL <=> Len(trace[p]) = 3
          /\ ruleResolution[p] = NULL <=> geminiData[p] # NULL

\* C10 witness: one run ended on a rule match without the classifier, another
\* called the classifier after a resolution without match.
C10_Witness ==
  \E p, q \in Procs :
    /\ pc[p] = "done" /\ pc[q] = "done"
    /\ ruleResolution[p] # NULL /\ trace[p] = <<"extract", "rules", "resolve">>
    /\ geminiData[p] = NULL
    /\ ruleResolution[q] = NULL /\ trace[q] = RunOrder
    /\ geminiData[q] # NULL

(***************************************************************************)
(* Claims about error handling and extraction.                             *)
(***************************************************************************)
\* the keys of the object returned at lines 295-307
RecordKeys ==
  { "transaction_id", "transaction_date", "amount", "category", "merchant",
    "account", "payment_method", "direction", "created_at", "raw_message",
    "confidence" }

\* C11: whatever the rule source and the classifier do (load succeeds, fails
\* or is unconfigured; classifier answers, fails or answers garbage), no
\* invocation of parseTransactionSMS rejects, and an invocation that has
\* completed returned a record with every key, a merchant, a category and a
\* confidence between 0 and 1.
C11_NeverRejectsFullRecord ==
  \A p \in Procs :
    /\ pc[p] # "rejected"
    /\ outcome[p] \in {"none", "hit", "unconfigured", "loaded", "failed"}
    /\ pc[p] = "done"
       => /\ record[p] # NULL
          /\ DOMAIN record[p][1] = RecordKeys
          /\ record[p][1].merchant # <<>>
          /\ record[p][1].category # ""
          /\ record[p][1].confidence \in 0..100
          /\ record[p][1].raw_message = msg[p][1].sms

\* C11 witness: an invocation completed with a record although its load of
\* the rules failed with nothing cached and its classifier call failed too.
C11_Witness ==
  \E p \in Procs :
    /\ pc[p] = "done"
    /\ outcome[p] = "failed"
    /\ rules[p] = <<>>
    /\ geminiData[p] = Some(GeminiCatch(msg[p][1].rawMerchant))
    /\ record[p] # NULL
    /\ record[p][1].category = "Unknown"
    /\ record[p][1].confidence = 0

\* the message of the request, trimmed as parseSMS trims it
RequestMessage == Trim(requestBody[1])

\* parseSMS can extract the amount, the direction
AmountFound(s) ==
  /\ StringMatch(s, amountPattern, TRUE) # NULL
  /\ MatchGroup(s, StringMatch(s, amountPattern, TRUE), 1) # <<>>

DirectionFound(s) ==
  RegExpTest(outflowPattern, s, TRUE) \/ RegExpTest(inflowPattern, s, TRUE)

\* C12: a request whose message yields an amount and a direction is not
\* failed by parseSMS, whatever else the message lacks (date, identifier,
\* merchant, payment method), and every failure reply carries a reason.
C12_OnlyAmountOrDirectionFail ==
  (hpc = "replied" /\ requestBody # NULL /\ requestBody[1] # <<>>)
  => /\ (AmountFound(RequestMessage) /\ DirectionFound(RequestMessage))
          => parsedTransaction # NULL
     /\ replySent[1].status # 200 => replySent[1].error # ""

\* 'TXN' followed by eight digits
IsGeneratedId(id) ==
  /\ Len(id) = 11
  /\ SubSeq(id, 1, 3) = Str("TXN")
  /\ \A i \in 4..11 : id[i] \in Digits

\* C13: every field extracted by parseTransactionSMS is populated: the amount
\* is a number not below 0 (0 when no amount pattern matches), the direction
\* is Inflow or Outflow, and payment method, account, identifier, date and
\* raw merchant are non-empty texts, with the defaults 'UPI', 'Unknown',
\* 'TXN' and eight digits, the current date and 'Unknown' when the message
\* supplies nothing.
C13_EveryFieldPopulated ==
  fnPhase = "extracted"
  => LET f == retFields[1]
     IN  /\ f.amount.type = "number"
         /\ f.amount.value >= 0
         /\ FirstWithGroup(f.sms, AmountPatterns, 1, TRUE) = NULL => f.amount = Num(0)
         /\ f.direction \in {"Inflow", "Outflow"}
         /\ f.payment_method # <<>>
         /\ f.account # <<>>
         /\ f.transaction_id # <<>>
         /\ f.transaction_date # <<>>
         /\ f.rawMerchant # <<>>
         /\ argMessage = <<>>
            => /\ f.payment_method = Str("UPI")
               /\ f.account = Str("Unknown")
               /\ IsGeneratedId(f.transaction_id)
               /\ f.transaction_date = getReadableDate(now)
               /\ f.rawMerchant = Unknown

\* C14: the direction is Inflow only when the lower-cased message contains
\* an inflow keyword and no outflow keyword; with keywords of both sets, or
\* of neither, it is Outflow.
C14_BothOrNeitherIsOutflow ==
  fnPhase = "extracted"
  => retFields[1].direction =
       IF /\ SomeKeyword(toLowerCaseAll(retFields[1].sms), inflowKeywords)
          /\ ~SomeKeyword(toLowerCaseAll(retFields[1].sms), outflowKeywords)
       THEN "Inflow" ELSE "Outflow"

\* the text has only A-Z, 0-9, '@' and single spaces between other characters
IsNormalForm(s) ==
  /\ \A i \in 1..Len(s) : s[i] \in UpperLetters \cup Digits \cup {"@", " "}
  /\ Len(s) > 0 => (s[1] # " " /\ s[Len(s)] # " ")
  /\ \A i \in 1..(Len(s) - 1) : ~(s[i] = " " /\ s[i + 1] = " ")

\* C15: normalizeForMatch applied to its own result returns that result, and
\* its result has only A-Z, 0-9, '@' and single interior spaces.
C15_NormalizeIdempotent ==
  /\ fnPhase \in {"once", "twice"} => IsNormalForm(retNormalized[1])
  /\ fnPhase = "twice" => retNormalized[2] = retNormalized[1]

\* C15 witness: a text with a lower case letter and a tab was normalized
\* twice; the result differs from the text and has an interior space.
C15_Witness ==
  /\ fnPhase = "twice"
  /\ \E i, j \in 1..Len(argMessage) : argMessage[i] = "b" /\ argMessage[j] = "\t"
  /\ \E i \in 1..Len(retNormalized[1]) : retNormalized[1][i] = " "
  /\ retNormalized[1] # argMessage

\* C16: for a raw merchant that is empty, is 'Unknown' or normalizes to the
\* empty text, and for an empty rule list, resolveMerchantAndCategory returns
\* no match, even when a rule of the list has a pattern the normalized
\* merchant contains; the call makes no external call and leaves the cache
\* as it was.
C16_GuardsReturnNoMatch ==
  /\ []((/\ fnPhase = "resolved"
          /\ \/ argMerchant = <<>>
             \/ argMerchant = Unknown
             \/ normalizeForMatch(argMerchant) = <<>>
             \/ retRules = <<>>)
        => retResolution = NULL)
  /\ [][fnPhase' = "resolved" => UNCHANGED cacheVars]_vars

\* C16 witness: the merchant '-' normalizes to the empty text, the list has a
\* rule whose pattern that text contains, and the resolver returned no match.
C16_Witness ==
  /\ fnPhase = "resolved"
  /\ argMerchant = <<"-">>
  /\ MatchingIdx(argMerchant, retRules) # {}
  /\ retResolution = NULL

\* C17: rules are immutable once loaded: the cached list changes only in the
\* step in which a successful refresh installs a whole new list, and a list
\* an invocation obtained (by a cache hit, a refresh or a failed refresh)
\* keeps its rules, their membership and their order through rule resolution
\* and the rest of the run, whatever other invocations do.
C17_RulesImmutable ==
  [][/\ merchantRulesCache' # merchantRulesCache
          => \E p \in Procs :
               /\ pc[p] = "awaitSheets"
               /\ outcome'[p] = "loaded"
               /\ merchantRulesCache' = Some(rules'[p])
               /\ \E rows \in SheetVersions : rules'[p] = ParseRows(rows)
     /\ \A p \in Procs :
          (pc[p] \in {"resolve", "awaitGemini", "done"} /\ pc'[p] # "idle")
            => rules'[p] = rules[p]]_vars

\* C17 witness: two invocations ran to the end on the one cached array of two
\* rules, one having installed it and the other having got it from a failed
\* refresh, both after rule resolution; the cache still holds that list.
C17_Witness ==
  \E p, q \in Procs :
    /\ pc[p] = "done" /\ pc[q] = "done"
    /\ outcome[p] = "loaded" /\ outcome[q] = "failed"
    /\ shared[p] /\ shared[q]
    /\ Len(rules[p]) >= 2
    /\ rules[q] = rules[p]
    /\ merchantRulesCache = Some(rules[p])

\* C18: when every external call eventually returns or fails, every started
\* parseTransactionSMS invocation eventually completes, with a record or with
\* an error; and no invocation waits for another: whatever the other
\* invocations are doing, the next step of an invocation in progress can be
\* taken as soon as its own request settles, so that concurrent invocations
\* on the one cache cannot deadlock.
C18_EveryInvocationCompletes ==
  /\ \A p \in Procs : (pc[p] # "idle") ~> (pc[p] \in {"done", "rejected"})
  /\ [](\A p \in Procs :
          /\ pc[p] = "awaitSheets" =>
               /\ ENABLED SheetsFail(p)
               /\ \A rows \in SheetVersions : ENABLED SheetsReply(p, rows)
          /\ pc[p] = "resolve" => ENABLED ResolveStep(p)
          /\ pc[p] = "awaitGemini" =>
               \A reply \in SettlingReplies : ENABLED GeminiReply(p, reply))

\* C18 witness: two invocations were awaiting the rule source at once; one
\* of them got its rows, went on and completed with a record while the other
\* is still awaiting its own request.
C18_Witness ==
  \E p, q \in Procs :
    /\ pc[p] = "done" /\ outcome[p] = "loaded" /\ record[p] # NULL
    /\ pc[q] = "awaitSheets"
    /\ callNow[q] <= lastRulesLoadTime

\* the text has the form D Mon YYYY or DD Mon YYYY
IsReadableDate(date) ==
  \E d \in 1..2 :
    /\ Len(date) = d + 9
    /\ \A i \in 1..d : date[i] \in Digits
    /\ date[d + 1] = " "
    /\ \E m \in 1..12 : SubSeq(date, d + 2, d + 4) = Str(MonthNames[m])
    /\ date[d + 5] = " "
    /\ \A i \in (d + 6)..(d + 9) : date[i] \in Digits

\* C19: extractTransactionDate returns the date of a message that has a date
\* written DD-MM-YYYY, with or without a time of day after it; it returns the
\* current date only for a message without a date in a supported form; and
\* its result always has the one form D Mon YYYY.
C19_DashedDateIsExtracted ==
  fnPhase = "extracted" =>
    LET date == retFields[1].transaction_date
        hasDashedDate == includes(argMessage, Str("20-01-2026"))
        hasNamedDate == includes(argMessage, Str("17 Jan 2026"))
    IN  /\ (hasDashedDate /\ ~hasNamedDate) => date = Str("20 Jan 2026")
        /\ date = getReadableDate(now) => (~hasDashedDate /\ ~hasNamedDate)
        /\ IsReadableDate(date)

\* C20: newTransactionHandler attempts the append at most once for a request,
\* and only after parseSMS returned a transaction and the classifier call
\* settled with a classification; it replies 200 only after the append
\* succeeded, with the row of that transaction in the sheet; a failed append
\* is answered with an error status and an error message; and after a failed
\* parse there is neither a classifier call nor an append.
C20_AppendOnceAfterParseAndClassify ==
  /\ appendCalls <= 1
  /\ classifierCalls <= 1
  /\ appendCalls = 1 =>
       /\ parsedTransaction # NULL
       /\ classification # NULL
       /\ classifierCalls = 1
  /\ (hpc = "replied" /\ replySent[1].status = 200) =>
       /\ appendCalls = 1
       /\ sheetRows = <<SheetRow(parsedTransaction[1], classification[1].category)>>
  /\ (hpc = "replied" /\ appendCalls = 1 /\ sheetRows = <<>>) =>
       /\ replySent[1].status >= 400
       /\ replySent[1].error # ""
       /\ replySent[1].body = NULL
  /\ (hpc = "replied" /\ parsedTransaction = NULL) =>
       /\ classifierCalls = 0
       /\ appendCalls = 0
       /\ sheetRows = <<>>
       /\ replySent[1].status >= 400

\* C20 witness: a message was parsed and classified, the one append failed,
\* and the handler replied 500 with the error of the append; nothing was
\* written.
C20_Witness ==
  /\ hpc = "replied"
  /\ parsedTransaction # NULL
  /\ classification # NULL
  /\ appendCalls = 1
  /\ sheetRows = <<>>
  /\ replySent[1].status = 500

(***************************************************************************)
(* Claims about the age of the cache and the handler's replies.            *)
(***************************************************************************)

\* C21: under every interleaving of concurrent loadMerchantRules calls the
\* load timestamp of the cache never decreases: every step, a successful
\* refresh included, leaves lastRulesLoadTime greater than or equal to its
\* value before the step.
C21_LoadTimeNeverDecreases ==
  [][lastRulesLoadTime' >= lastRulesLoadTime]_vars

\* C22: every rule held in the cache has a non-empty normalized match
\* pattern, a non-empty canonical merchant and a non-empty category, and no
\* cached rule has a pattern that the normalized form of every merchant
\* contains.
C22_CachedRulesAreWellFormed ==
  merchantRulesCache # NULL =>
    \A i \in 1..Len(merchantRulesCache[1]) :
      LET rule == merchantRulesCache[1][i]
      IN  /\ rule.match_pattern # <<>>
          /\ rule.canonical_merchant # <<>>
          /\ rule.category # ""
          /\ \E m \in PipelineMerchants :
               ~includes(normalizeForMatch(m), rule.match_pattern)

\* C23: failures are not cached.  A failed refresh leaves the cached list and
\* the load timestamp as they were and serves the list of the last successful
\* load (or none); every call made with the sheet configured while the cache
\* is empty or expired sends a request to the sheet again; and a load that
\* succeeds installs its rules and sets the timestamp, so that the list
\* served from then on is the new one.
C23_FailuresAreNotCached ==
  [][\A p \in Procs :
       /\ (pc[p] = "awaitSheets" /\ outcome'[p] = "failed") =>
            /\ lastRulesLoadTime' = lastRulesLoadTime
            /\ merchantRulesCache' = merchantRulesCache
            /\ rules'[p] = IF lastLoad = NULL THEN <<>> ELSE lastLoad[1].rules
       /\ (pc[p] = "idle" /\ pc'[p] # "idle" /\ sheetsConfigured /\ ~IsFresh(now)) =>
            /\ pc'[p] = "awaitSheets"
            /\ loadCalls' = loadCalls + 1
       /\ (pc[p] = "awaitSheets" /\ outcome'[p] = "loaded") =>
            /\ merchantRulesCache' = Some(rules'[p])
            /\ lastRulesLoadTime' = callNow[p]
            /\ lastLoad' = Some([rules |-> rules'[p], stamp |-> callNow[p]])]_vars

\* C23 witness: with the cache empty, the load of one invocation failed and
\* it went on with no rules; the other invocation sent a request of its own,
\* which succeeded and installed its rules with its timestamp.
C23_Witness ==
  \E p, q \in Procs :
    /\ outcome[p] = "failed" /\ rules[p] = <<>> /\ pc[p] = "done"
    /\ outcome[q] = "loaded" /\ Len(rules[q]) > 0
    /\ loadCalls = 2
    /\ merchantRulesCache = Some(rules[q])
    /\ lastRulesLoadTime > 0

\* C24: newTransactionHandler sends one reply on every path, with status
\* 200, 400 or 500; for a request without a message (no body, or a body whose
\* message is missing or empty) the reply is 400 'Message is required', and
\* the parser, the classifier and the append are not called.
C24_OneReplyAndMessageRequired ==
  /\ (hpc = "replied") <=> (replySent # NULL)
  /\ hpc = "replied" =>
       /\ replySent[1].status \in {200, 400, 500}
       /\ (requestBody = NULL \/ requestBody[1] = <<>>) =>
            /\ replySent[1] = ErrorReply(400, "Message is required")
            /\ parsedTransaction = NULL
            /\ classifierCalls = 0
            /\ appendCalls = 0

\* the classifier call failed: the request was rejected, its text does not
\* parse, or the category of the reply is outside the allowed list
ClassifierFailed(reply) == ~ParsesToObject(reply) \/ HasInvalidCategory(reply)

\* C25: in newTransactionHandler a classifier failure produces no error
\* reply.  classifyTransaction returns category 'Unknown' with confidence 0
\* for it, the append is attempted with that category, and when the append
\* succeeds the row with category 'Unknown' is in the store and the reply is
\* 200; the only error reply sent after a successful parse is that of a
\* failed append, so the 'classification failed' branch is never taken; and
\* the confidence of every 200 reply is a number from 0 to 1.
C25_ClassifierFailureIsNotAnError ==
  /\ (classification # NULL /\ ClassifierFailed(argReply[1])) =>
       /\ classification[1] = [category |-> "Unknown", confidence |-> 0]
       /\ appendCalls = 1
       /\ (hpc = "replied" /\ sheetRows # <<>>) =>
            /\ sheetRows = <<SheetRow(parsedTransaction[1], "Unknown")>>
            /\ replySent[1].status = 200
            /\ replySent[1].body[1].category = "Unknown"
            /\ replySent[1].body[1].confidence = 0
  /\ (hpc = "replied" /\ parsedTransaction # NULL /\ replySent[1].status # 200) =>
       /\ classification # NULL
       /\ appendCalls = 1
       /\ sheetRows = <<>>
       /\ replySent[1] = sheets_write_failed(parsedTransaction[1], classification[1])
  /\ (hpc = "replied" /\ replySent[1].status = 200) =>
       /\ replySent[1].body[1].confidence \in 0..100
       /\ replySent[1].body[1].category \in ALLOWED_CATEGORIES

\* C25 witness: the classifier answered with a category outside the allowed
\* list; the transaction was appended with category 'Unknown' and the reply
\* is 200 with confidence 0.
C25_Witness ==
  /\ hpc = "replied"
  /\ argReply # NULL
  /\ HasInvalidCategory(argReply[1])
  /\ Len(sheetRows) = 1
  /\ sheetRows[1][4] = "Unknown"
  /\ replySent[1].status = 200
  /\ replySent[1].body[1].confidence = 0

====
